---- MODULE Spec2Model ----
(***************************************************************************)
(* Verification model of the ADead-BIB universal runtime memory layer      *)
(* (src/runtime/core/memory.c, memory.h): the arena allocator, the pool    *)
(* allocator with its intrusive free list, and the memory manager.         *)
(*                                                                         *)
(* usize values are kept at a fixed width (UsizeBits bits, arithmetic      *)
(* modulo UsizeMod) so that wrap-around of sizes and counters is part of   *)
(* the model.  Addresses are plain naturals; NULL is 0.                    *)
(***************************************************************************)
EXTENDS Integers, Naturals, Sequences, FiniteSets, TLC

(***************************************************************************)
(* Bounds of the model.                                                    *)
(***************************************************************************)
\* width of usize in the model (size_t in the source)
UsizeBits == 12
\* number of distinct 16-byte aligned addresses malloc may hand out
NumHeapAddrs == 2
\* width of u32 in the model
U32Bits == 16
\* memory-manager calls explored after each adead_memory_init
MaxMMSteps == 4
\* accepted adead_pool_free calls explored after each (re)build of the free list
MaxFrees == 2
\* tensor and numeric calls made on the runtime in one run
MaxRtSteps == 3
\* regions an arena hands out between two resets
MaxRegions == 2

UsizeMod == 2 ^ UsizeBits
UsizeMax == UsizeMod - 1
U32Mod == 2 ^ U32Bits

NULL == 0

\* error codes (types.h)
ADEAD_OK == 0
ADEAD_ERROR_OUT_OF_MEMORY == 0 - 8
ADEAD_ERROR_INVALID_PARAM == 0 - 9

ADEAD_ALIGNMENT == 16

(***************************************************************************)
(* Fixed-width helpers.                                                    *)
(***************************************************************************)
Wrap(x) == x % UsizeMod

\* u32 arithmetic
Wrap32(x) == x % U32Mod

RECURSIVE BitAndN(_, _, _)
BitAndN(a, b, n) ==
    IF n = 0 THEN 0
    ELSE (a % 2) * (b % 2) + 2 * BitAndN(a \div 2, b \div 2, n - 1)

\* a & b on usize
BitAnd(a, b) == BitAndN(a, b, UsizeBits)

\* ~a on usize
BitNot(a) == UsizeMax - a

\* (size + alignment - 1) & ~(alignment - 1), all in usize arithmetic
adead_align_up(size, alignment) ==
    BitAnd(Wrap(size + alignment + UsizeMod - 1),
           BitNot(Wrap(alignment + UsizeMod - 1)))

IsPow2(n) == n \in {2 ^ k : k \in 0..(UsizeBits - 1)}

(***************************************************************************)
(* malloc: returns NULL or an address aligned for any fundamental type     *)
(* (16 bytes); which one is not under the program's control.               *)
(***************************************************************************)
HeapAddrs == {16 * k : k \in 1..NumHeapAddrs}
MallocResults == {NULL} \cup HeapAddrs

(***************************************************************************)
(* Arena allocator.                                                        *)
(***************************************************************************)
ZeroArena == [base |-> NULL, offset |-> 0, capacity |-> 0, peak |-> 0]

\* inputs of the arena operations
ArenaCaps == {0, 40}
ArenaSizes == {0, 8, 24, UsizeMax - 15, UsizeMax}
ArenaAligns == {0, 3, 16, 32}

adead_arena_init(a, capacity, m) ==
    IF capacity = 0
    THEN [arena |-> a, err |-> ADEAD_ERROR_INVALID_PARAM]
    ELSE IF m = NULL
    THEN [arena |-> [a EXCEPT !.base = NULL], err |-> ADEAD_ERROR_OUT_OF_MEMORY]
    ELSE [arena |-> [base |-> m, offset |-> 0, capacity |-> capacity, peak |-> 0],
          err |-> ADEAD_OK]

adead_arena_destroy(a) ==
    IF a.base # NULL THEN ZeroArena ELSE a

\* the space check of adead_arena_alloc, evaluated in usize
ArenaNoSpace_Never(aligned_offset, size, capacity) == FALSE

ArenaNoSpace(aligned_offset, size, capacity) ==
    Wrap(aligned_offset + size) > capacity

adead_arena_alloc(a, size, alignment) ==
    IF a.base = NULL \/ size = 0
    THEN [arena |-> a, ptr |-> NULL]
    ELSE LET aligned_offset == adead_align_up(a.offset, alignment) IN
         IF ArenaNoSpace(aligned_offset, size, a.capacity)
         THEN [arena |-> a, ptr |-> NULL]
         ELSE LET off == Wrap(aligned_offset + size) IN
              [arena |-> [a EXCEPT !.offset = off,
                                   !.peak = IF off > a.peak THEN off ELSE a.peak],
               ptr |-> a.base + aligned_offset]

adead_arena_reset_all(a) == [a EXCEPT !.offset = 0, !.peak = 0]

adead_arena_reset(a) == [a EXCEPT !.offset = 0]


(***************************************************************************)
(* Pool allocator.  The backing buffer is modelled byte by byte, because   *)
(* the free list is threaded through the blocks: a link is a pointer       *)
(* stored little-endian in the first PtrBytes bytes at the address given   *)
(* to adead_pool_free, whatever that address is.  A byte never written     *)
(* since malloc is Uninit.                                                 *)
(***************************************************************************)
\* sizeof(ADeadPoolBlock): one pointer
PtrBytes == 8
Uninit == 0 - 1
\* every pointer value at or above WILD is represented by WILD: it lies far
\* outside every buffer of the model
WILD == 2 ^ 24

ZeroPool == [base |-> NULL, free_list |-> NULL, block_size |-> 0,
             capacity |-> 0, used |-> 0]

\* byte i (0 = least significant) of pointer value v
PtrByte(v, i) == IF i >= 4 THEN 0 ELSE (v \div (256 ^ i)) % 256

\* the buffer mem starts at address base; mem[k] is the byte at base + k - 1
InBuf(mem, base, a) == base # NULL /\ a >= base /\ a < base + Len(mem)

ByteAt(mem, base, a) == IF InBuf(mem, base, a) THEN mem[a - base + 1] ELSE Uninit

\* block->next = v with block at address a: an 8-byte store.  Bytes of the
\* store that fall outside the buffer land in memory the pool does not own.
WritePtr(mem, base, a, v) ==
    [k \in 1..Len(mem) |->
        IF base + k - 1 >= a /\ base + k - 1 < a + PtrBytes
        THEN PtrByte(v, base + k - 1 - a)
        ELSE mem[k]]

\* a pointer-sized load from address a whose bytes are all known
LoadPtr(mem, base, a) ==
    IF \E i \in 3..(PtrBytes - 1) : ByteAt(mem, base, a + i) # 0
    THEN WILD
    ELSE LET v == ByteAt(mem, base, a) + 256 * ByteAt(mem, base, a + 1)
                  + 65536 * ByteAt(mem, base, a + 2)
         IN IF v > WILD THEN WILD ELSE v

\* values a load outside the buffer, or of bytes never written, may yield
IndetPtrs(base) == {NULL, WILD, base}

\* block->next for block at address a: the set of values the load may yield
ReadPtr(mem, base, a) ==
    IF \A i \in 0..(PtrBytes - 1) : ByteAt(mem, base, a + i) # Uninit
    THEN {LoadPtr(mem, base, a)}
    ELSE IndetPtrs(base)

\* the free-list construction loop shared by adead_pool_init and adead_pool_reset
RECURSIVE BuildFreeList(_, _, _, _, _, _)
BuildFreeList(mem, base, block_size, num_blocks, i, free_list) ==
    IF i >= num_blocks
    THEN [mem |-> mem, free_list |-> free_list]
    ELSE LET block == base + i * block_size IN
         BuildFreeList(WritePtr(mem, base, block, free_list),
                       base, block_size, num_blocks, i + 1, block)

Max(a, b) == IF a > b THEN a ELSE b

adead_pool_init(pool, mem, block_size, num_blocks, m) ==
    IF block_size = 0 \/ num_blocks = 0
    THEN [pool |-> pool, mem |-> mem, err |-> ADEAD_ERROR_INVALID_PARAM]
    ELSE LET bs == adead_align_up(Max(block_size, PtrBytes), ADEAD_ALIGNMENT)
             total_size == Wrap(bs * num_blocks)
         IN IF m = NULL
            THEN [pool |-> [pool EXCEPT !.base = NULL], mem |-> mem,
                  err |-> ADEAD_ERROR_OUT_OF_MEMORY]
            ELSE LET fresh == [k \in 1..total_size |-> Uninit]
                     built == BuildFreeList(fresh, m, bs, num_blocks, 0, NULL)
                 IN [pool |-> [base |-> m, free_list |-> built.free_list,
                               block_size |-> bs, capacity |-> num_blocks,
                               used |-> 0],
                     mem |-> built.mem, err |-> ADEAD_OK]

adead_pool_destroy(pool, mem) ==
    IF pool.base # NULL
    THEN [pool |-> ZeroPool, mem |-> <<>>]
    ELSE [pool |-> pool, mem |-> mem]

\* adead_pool_alloc without the pop of the list head
adead_pool_alloc_nopop(pool, nxt) ==
    IF pool.free_list = NULL
    THEN [pool |-> pool, ptr |-> NULL]
    ELSE [pool |-> [pool EXCEPT !.used = Wrap(pool.used + 1)],
          ptr |-> pool.free_list]

\* nxt is the value loaded from block->next
adead_pool_alloc(pool, nxt) ==
    IF pool.free_list = NULL
    THEN [pool |-> pool, ptr |-> NULL]
    ELSE [pool |-> [pool EXCEPT !.free_list = nxt, !.used = Wrap(pool.used + 1)],
          ptr |-> pool.free_list]

\* the range check of adead_pool_free
PoolOwns_Any(pool, p) == TRUE

PoolOwns(pool, p) ==
    ~ (p < pool.base \/ p >= pool.base + Wrap(pool.block_size * pool.capacity))

\* adead_pool_free that links the block but leaves the list head alone
adead_pool_free_nohead(pool, mem, ptr) ==
    IF ptr = NULL \/ ~ PoolOwns(pool, ptr)
    THEN [pool |-> pool, mem |-> mem, done |-> FALSE]
    ELSE [pool |-> [pool EXCEPT !.used = Wrap(pool.used + UsizeMod - 1)],
          mem |-> WritePtr(mem, pool.base, ptr, pool.free_list),
          done |-> TRUE]

\* adead_pool_free with a check against freeing the current list head again
adead_pool_free_checked(pool, mem, ptr) ==
    IF ptr = NULL \/ ~ PoolOwns(pool, ptr) \/ ptr = pool.free_list
    THEN [pool |-> pool, mem |-> mem, done |-> FALSE]
    ELSE [pool |-> [pool EXCEPT !.free_list = ptr,
                                !.used = Wrap(pool.used + UsizeMod - 1)],
          mem |-> WritePtr(mem, pool.base, ptr, pool.free_list),
          done |-> TRUE]

\* adead_pool_free that pushes the block but leaves the counter alone
adead_pool_free_nocount(pool, mem, ptr) ==
    IF ptr = NULL \/ ~ PoolOwns(pool, ptr)
    THEN [pool |-> pool, mem |-> mem, done |-> FALSE]
    ELSE [pool |-> [pool EXCEPT !.free_list = ptr],
          mem |-> WritePtr(mem, pool.base, ptr, pool.free_list),
          done |-> TRUE]

adead_pool_free(pool, mem, ptr) ==
    IF ptr = NULL \/ ~ PoolOwns(pool, ptr)
    THEN [pool |-> pool, mem |-> mem, done |-> FALSE]
    ELSE [pool |-> [pool EXCEPT !.free_list = ptr,
                                !.used = Wrap(pool.used + UsizeMod - 1)],
          mem |-> WritePtr(mem, pool.base, ptr, pool.free_list),
          done |-> TRUE]

\* adead_pool_reset that clears the counter but does not rebuild the list
adead_pool_reset_norebuild(pool, mem) ==
    IF pool.base = NULL
    THEN [pool |-> pool, mem |-> mem]
    ELSE [pool |-> [pool EXCEPT !.used = 0], mem |-> mem]

adead_pool_reset(pool, mem) ==
    IF pool.base = NULL
    THEN [pool |-> pool, mem |-> mem]
    ELSE LET built == BuildFreeList(mem, pool.base, pool.block_size,
                                    pool.capacity, 0, NULL)
         IN [pool |-> [pool EXCEPT !.free_list = built.free_list, !.used = 0],
             mem |-> built.mem]

(***************************************************************************)
(* Memory manager: one scratch arena, one pool of 256-byte blocks and four *)
(* lifetime counters.                                                      *)
(***************************************************************************)
ZeroMM == [scratch |-> ZeroArena, tensor_pool |-> ZeroPool,
           total_alloc |-> 0, total_freed |-> 0,
           alloc_count |-> 0, free_count |-> 0]

\* block size of the tensor pool
TensorBlockSize == 256

\* m1, m2: what malloc returns for the arena and for the pool
\* adead_memory_init that returns the pool's error without destroying the arena
adead_memory_init_keeparena(mm, mem, scratch_size, pool_size, m1, m2) ==
    LET a == adead_arena_init(ZeroArena, scratch_size, m1) IN
    IF a.err # ADEAD_OK
    THEN [mm |-> [ZeroMM EXCEPT !.scratch = a.arena], mem |-> <<>>, err |-> a.err]
    ELSE LET q == adead_pool_init(ZeroPool, <<>>, TensorBlockSize,
                                  pool_size \div TensorBlockSize, m2) IN
         IF q.err # ADEAD_OK
         THEN [mm |-> [ZeroMM EXCEPT !.scratch = a.arena,
                                     !.tensor_pool = q.pool],
               mem |-> <<>>, err |-> q.err]
         ELSE [mm |-> [ZeroMM EXCEPT !.scratch = a.arena, !.tensor_pool = q.pool],
               mem |-> q.mem, err |-> ADEAD_OK]

adead_memory_init(mm, mem, scratch_size, pool_size, m1, m2) ==
    LET a == adead_arena_init(ZeroArena, scratch_size, m1) IN
    IF a.err # ADEAD_OK
    THEN [mm |-> [ZeroMM EXCEPT !.scratch = a.arena], mem |-> <<>>, err |-> a.err]
    ELSE LET q == adead_pool_init(ZeroPool, <<>>, TensorBlockSize,
                                  pool_size \div TensorBlockSize, m2) IN
         IF q.err # ADEAD_OK
         THEN [mm |-> [ZeroMM EXCEPT !.scratch = adead_arena_destroy(a.arena),
                                     !.tensor_pool = q.pool],
               mem |-> <<>>, err |-> q.err]
         ELSE [mm |-> [ZeroMM EXCEPT !.scratch = a.arena, !.tensor_pool = q.pool],
               mem |-> q.mem, err |-> ADEAD_OK]

adead_memory_destroy(mm, mem) == [mm |-> ZeroMM, mem |-> <<>>]

adead_memory_scratch(mm, size) ==
    LET r == adead_arena_alloc(mm.scratch, size, ADEAD_ALIGNMENT) IN
    IF r.ptr # NULL
    THEN [mm |-> [mm EXCEPT !.scratch = r.arena,
                            !.total_alloc = Wrap(mm.total_alloc + size),
                            !.alloc_count = Wrap32(mm.alloc_count + 1)],
          ptr |-> r.ptr]
    ELSE [mm |-> mm, ptr |-> NULL]

\* adead_memory_scratch_reset that credits the arena's peak instead of its offset
adead_memory_scratch_reset_peak(mm) ==
    [mm EXCEPT !.total_freed = Wrap(mm.total_freed + mm.scratch.peak),
               !.free_count = Wrap32(mm.free_count + 1),
               !.scratch = adead_arena_reset(mm.scratch)]

adead_memory_scratch_reset(mm) ==
    [mm EXCEPT !.total_freed = Wrap(mm.total_freed + mm.scratch.offset),
               !.free_count = Wrap32(mm.free_count + 1),
               !.scratch = adead_arena_reset(mm.scratch)]

\* the values adead_memory_stats stores through its four out-pointers
adead_memory_stats(mm) ==
    <<mm.total_alloc, mm.total_freed, mm.alloc_count, mm.free_count>>

\* inputs of the memory-manager operations
ScratchSizes == {0, 512}
TensorPoolSizes == {0, 255, 256, 512}
ScratchAllocSizes == {0, 100, 200, UsizeMax - 15}
\* addresses malloc hands out for the tensor pool buffer
TensorPoolMallocResults == {NULL, 2048}

\* inputs of the pool operations
PoolBlockSizes == {0, 1}
\* addresses malloc hands out for the pool buffer
PoolMallocResults == {NULL, 48}
PoolPtrOffsets == {0, 1, 8}
PoolNumBlocks == {0, 1, 2}
\* consecutive adead_pool_alloc calls explored: one more than the largest pool
MaxAllocRun == (CHOOSE n \in PoolNumBlocks : \A k \in PoolNumBlocks : k <= n) + 1

InPoolRange(pool, a) ==
    a >= pool.base /\ a < pool.base + pool.block_size * pool.capacity

BlockAddrs(pool) == {pool.base + i * pool.block_size : i \in 0..(pool.capacity - 1)}

\* pointer arguments tried by the caller of adead_pool_free: NULL, addresses
\* just outside the buffer, and for every block its start, a misaligned
\* address overlapping the block's link and an interior address.  Addresses in
\* the last PtrBytes - 1 bytes are not tried: the link store would overrun
\* the buffer.
FreePtrs(pool) ==
    {NULL} \cup
    (IF pool.base = NULL THEN {}
     ELSE {pool.base - 1, pool.base + pool.block_size * pool.capacity} \cup
          {b + d : b \in BlockAddrs(pool), d \in PoolPtrOffsets})

\* the free list as a sequence of addresses, followed from head p for at most
\* n links; the walk stops at NULL and at an address whose link cannot be loaded
RECURSIVE Walk(_, _, _, _)
Walk(mem, base, p, n) ==
    IF p = NULL \/ n = 0 THEN <<>>
    ELSE LET r == ReadPtr(mem, base, p) IN
         IF Cardinality(r) = 1
         THEN <<p>> \o Walk(mem, base, CHOOSE v \in r : TRUE, n - 1)
         ELSE <<p>>

FreeListSeq(pool, mem) == Walk(mem, pool.base, pool.free_list, pool.capacity + 2)

SeqToSet(q) == {q[i] : i \in 1..Len(q)}

Front(q) == SubSeq(q, 1, Len(q) - 1)

(***************************************************************************)
(* Runtime (runtime.c).  The ADeadRuntime structure embeds a memory        *)
(* manager; tensors are caller-owned descriptors whose storage comes from  *)
(* the backend's allocator.  u64 has the width of usize on the 64-bit      *)
(* target, so both are reduced modulo UsizeMod.  The i32 casts of the      *)
(* numeric wrappers are exact for the shape values used here.              *)
(***************************************************************************)
ADEAD_BACKEND_CPU == 0
ADEAD_BACKEND_CUDA == 1
ADEAD_BACKEND_VULKAN == 2
ADEAD_BACKEND_AUTO == 255
ADEAD_MAX_DIMS == 8

\* any non-null pointer to caller-owned storage (runtime structure, shape
\* array, host buffer)
PTR == 1
\* the address of the static cpu_vtable
CPU_VTABLE == 1
\* the value stored in a byte that a kernel has computed
Computed == 0 - 2
\* the return slot of a call whose behaviour is undefined
NoReturn == 1

adead_dtype_size(dtype) ==
    CASE dtype = 0 -> 4
      [] dtype = 1 -> 8
      [] dtype = 2 -> 4
      [] dtype = 3 -> 8
      [] dtype = 4 -> 1
      [] dtype = 5 -> 1
      [] dtype = 6 -> 2
      [] dtype = 7 -> 2
      [] OTHER -> 0

ZeroDims == [i \in 1..ADEAD_MAX_DIMS |-> 0]
ZeroTensor == [data |-> NULL, shape |-> ZeroDims, strides |-> ZeroDims,
               ndim |-> 0, dtype |-> 0, device |-> 0, size_bytes |-> 0]

\* the product loop of adead_tensor_numel: dimensions i..ndim of t (1-based)
RECURSIVE NumelFrom(_, _, _)
NumelFrom(t, i, n) ==
    IF i > t.ndim THEN n ELSE NumelFrom(t, i + 1, Wrap(n * t.shape[i]))

adead_tensor_numel(t) == NumelFrom(t, 1, 1)

\* the shape-copy loop of adead_tensor_create: fills dims[i..ndim] from the
\* caller's array
RECURSIVE CopyShape(_, _, _, _)
CopyShape(dims, shape, ndim, i) ==
    IF i > ndim THEN dims
    ELSE CopyShape([dims EXCEPT ![i] = shape[i]], shape, ndim, i + 1)

\* the stride loop of adead_tensor_create, from dimension i down to the first
RECURSIVE StrideLoop(_, _, _)
StrideLoop(strides, shape, i) ==
    IF i < 1 THEN strides
    ELSE StrideLoop([strides EXCEPT ![i] = Wrap(strides[i + 1] * shape[i + 1])],
                    shape, i - 1)

ZeroCtx == [allocated |-> 0, peak |-> 0]
ZeroRuntime == [memory |-> ZeroMM, active_backend |-> 0, backend_vtable |-> NULL,
                backend_ctx |-> NULL, flags |-> 0, initialized |-> 0]

\* a freed or never allocated heap buffer
NoBuffer == [live |-> FALSE, bytes |-> <<>>]

\* the outcomes of a call whose behaviour is undefined: the process is
\* stopped by a fault, or the call returns with memory outside its buffers
\* read or overwritten
UBOutcomes == {"crashed", "corrupt"}

\* cpu_alloc that does not count the bytes it hands out
cpu_alloc_uncounted(ctxp, ctx, heap, size, m) ==
    IF m = NULL
    THEN [ctx |-> ctx, heap |-> heap, ptr |-> NULL, ub |-> FALSE]
    ELSE IF ctxp = NULL
    THEN [ctx |-> ctx, heap |-> heap, ptr |-> NULL, ub |-> TRUE]
    ELSE [ctx |-> ctx,
          heap |-> [heap EXCEPT ![m] = [live |-> TRUE,
                                        bytes |-> [i \in 1..size |-> Uninit]]],
          ptr |-> m, ub |-> FALSE]

\* cpu_alloc: m is the result of malloc(size)
cpu_alloc(ctxp, ctx, heap, size, m) ==
    IF m = NULL
    THEN [ctx |-> ctx, heap |-> heap, ptr |-> NULL, ub |-> FALSE]
    ELSE IF ctxp = NULL
    THEN [ctx |-> ctx, heap |-> heap, ptr |-> NULL, ub |-> TRUE]
    ELSE LET allocated == Wrap(ctx.allocated + size) IN
         [ctx |-> [allocated |-> allocated,
                   peak |-> IF allocated > ctx.peak THEN allocated ELSE ctx.peak],
          heap |-> [heap EXCEPT ![m] = [live |-> TRUE,
                                        bytes |-> [i \in 1..size |-> Uninit]]],
          ptr |-> m, ub |-> FALSE]

\* cpu_free
cpu_free(heap, ptr) ==
    IF ptr = NULL THEN heap ELSE [heap EXCEPT ![ptr] = NoBuffer]

cpu_memory_used(ctxp, ctx) == IF ctxp # NULL THEN ctx.allocated ELSE 0

\* one entry of the list of backend functions a public call has invoked
BackendCall(fn, ctxp, args) == [fn |-> fn, ctx |-> ctxp, args |-> args]

\* the backend selection switch of adead_init
SelectBackend_Requested(backend) ==
    IF backend \in {ADEAD_BACKEND_CPU, ADEAD_BACKEND_AUTO,
                    ADEAD_BACKEND_CUDA, ADEAD_BACKEND_VULKAN}
    THEN [known |-> TRUE, vtable |-> CPU_VTABLE, active |-> backend]
    ELSE [known |-> FALSE, vtable |-> NULL, active |-> 0]

SelectBackend(backend) ==
    IF backend \in {ADEAD_BACKEND_CPU, ADEAD_BACKEND_AUTO,
                    ADEAD_BACKEND_CUDA, ADEAD_BACKEND_VULKAN}
    THEN [known |-> TRUE, vtable |-> CPU_VTABLE, active |-> ADEAD_BACKEND_CPU]
    ELSE [known |-> FALSE, vtable |-> NULL, active |-> 0]

\* cpu_init: m is the result of malloc(sizeof(CPUBackendCtx))
cpu_init(m) ==
    IF m = NULL
    THEN [ctxp |-> NULL, ctx |-> ZeroCtx, err |-> ADEAD_ERROR_OUT_OF_MEMORY]
    ELSE [ctxp |-> m, ctx |-> ZeroCtx, err |-> ADEAD_OK]

\* the sizes adead_init passes to adead_memory_init (64 MB and 16 MB in the
\* source), scaled to the usize width of the model: a non-empty arena and a
\* pool of a whole number of 256-byte blocks
RtScratchSize == 1024
RtPoolSize == 256
\* the addresses malloc returns for the arena's and the pool's buffer
RtArenaAddr == 16
RtPoolAddr == 2048
\* adead_memory_init(&rt->memory, ...) with both allocations succeeding, and
\* with the arena's and the pool's allocation failing
RtMemoryReady ==
    adead_memory_init(ZeroMM, <<>>, RtScratchSize, RtPoolSize, RtArenaAddr, RtPoolAddr)
RtMemoryNoArena ==
    adead_memory_init(ZeroMM, <<>>, RtScratchSize, RtPoolSize, NULL, RtPoolAddr)
RtMemoryNoPool ==
    adead_memory_init(ZeroMM, <<>>, RtScratchSize, RtPoolSize, RtArenaAddr, NULL)

\* adead_init that returns the backend's init error without destroying the
\* memory manager
adead_init_keepmemory(rtp, rt, ctx, mem, backend, mi, m3) ==
    IF rtp = NULL
    THEN [rt |-> rt, ctx |-> ctx, mem |-> mem,
          ret |-> ADEAD_ERROR_INVALID_PARAM, calls |-> <<>>]
    ELSE LET rt1 == [ZeroRuntime EXCEPT !.memory = mi.mm]
             sel == SelectBackend(backend)
             rt2 == [rt1 EXCEPT !.backend_vtable = sel.vtable,
                                !.active_backend = sel.active]
             bi == cpu_init(m3)
         IN
         IF mi.err # ADEAD_OK
         THEN [rt |-> rt1, ctx |-> ZeroCtx, mem |-> mi.mem,
               ret |-> mi.err, calls |-> <<>>]
         ELSE IF ~ sel.known
         THEN [rt |-> [rt1 EXCEPT !.memory = adead_memory_destroy(mi.mm, mi.mem).mm],
               ctx |-> ZeroCtx, mem |-> adead_memory_destroy(mi.mm, mi.mem).mem,
               ret |-> ADEAD_ERROR_INVALID_PARAM, calls |-> <<>>]
         ELSE IF bi.err # ADEAD_OK
         THEN [rt |-> rt2, ctx |-> ZeroCtx, mem |-> mi.mem,
               ret |-> bi.err, calls |-> <<BackendCall("init", NULL, <<>>)>>]
         ELSE [rt |-> [rt2 EXCEPT !.backend_ctx = bi.ctxp, !.initialized = 1],
               ctx |-> bi.ctx, mem |-> mi.mem,
               ret |-> ADEAD_OK, calls |-> <<BackendCall("init", NULL, <<>>)>>]

\* adead_init: mi is the result of its adead_memory_init call, m3 the result
\* of the malloc made by cpu_init
adead_init(rtp, rt, ctx, mem, backend, mi, m3) ==
    IF rtp = NULL
    THEN [rt |-> rt, ctx |-> ctx, mem |-> mem,
          ret |-> ADEAD_ERROR_INVALID_PARAM, calls |-> <<>>]
    ELSE LET rt1 == [ZeroRuntime EXCEPT !.memory = mi.mm]
             sel == SelectBackend(backend)
             rt2 == [rt1 EXCEPT !.backend_vtable = sel.vtable,
                                !.active_backend = sel.active]
             bi == cpu_init(m3)
         IN
         IF mi.err # ADEAD_OK
         THEN [rt |-> rt1, ctx |-> ZeroCtx, mem |-> mi.mem,
               ret |-> mi.err, calls |-> <<>>]
         ELSE IF ~ sel.known
         THEN [rt |-> [rt1 EXCEPT !.memory = adead_memory_destroy(mi.mm, mi.mem).mm],
               ctx |-> ZeroCtx, mem |-> adead_memory_destroy(mi.mm, mi.mem).mem,
               ret |-> ADEAD_ERROR_INVALID_PARAM, calls |-> <<>>]
         ELSE IF bi.err # ADEAD_OK
         THEN [rt |-> [rt2 EXCEPT !.memory = adead_memory_destroy(mi.mm, mi.mem).mm],
               ctx |-> ZeroCtx, mem |-> adead_memory_destroy(mi.mm, mi.mem).mem,
               ret |-> bi.err, calls |-> <<BackendCall("init", NULL, <<>>)>>]
         ELSE [rt |-> [rt2 EXCEPT !.backend_ctx = bi.ctxp, !.initialized = 1],
               ctx |-> bi.ctx, mem |-> mi.mem,
               ret |-> ADEAD_OK, calls |-> <<BackendCall("init", NULL, <<>>)>>]

\* adead_shutdown that leaves the structure as it is after the teardown
adead_shutdown_nozero(rtp, rt, ctx, mem) ==
    IF rtp = NULL \/ rt.initialized = 0
    THEN [rt |-> rt, ctx |-> ctx, mem |-> mem, calls |-> <<>>]
    ELSE [rt |-> [rt EXCEPT !.memory = adead_memory_destroy(rt.memory, mem).mm],
          ctx |-> IF rt.backend_vtable # NULL /\ rt.backend_ctx # NULL
                  THEN ZeroCtx ELSE ctx,
          mem |-> adead_memory_destroy(rt.memory, mem).mem,
          calls |-> IF rt.backend_vtable # NULL /\ rt.backend_ctx # NULL
                    THEN <<BackendCall("shutdown", rt.backend_ctx, <<>>)>> ELSE <<>>]

\* adead_shutdown; cpu_shutdown frees the backend context
adead_shutdown(rtp, rt, ctx, mem) ==
    IF rtp = NULL \/ rt.initialized = 0
    THEN [rt |-> rt, ctx |-> ctx, mem |-> mem, calls |-> <<>>]
    ELSE [rt |-> ZeroRuntime,
          ctx |-> IF rt.backend_vtable # NULL /\ rt.backend_ctx # NULL
                  THEN ZeroCtx ELSE ctx,
          mem |-> adead_memory_destroy(rt.memory, mem).mem,
          calls |-> IF rt.backend_vtable # NULL /\ rt.backend_ctx # NULL
                    THEN <<BackendCall("shutdown", rt.backend_ctx, <<>>)>> ELSE <<>>]

\* ctx is the CPUBackendCtx that rt.backend_ctx points to
adead_memory_used(rtp, rt, ctx) ==
    IF rtp = NULL \/ rt.backend_vtable = NULL THEN 0
    ELSE cpu_memory_used(rt.backend_ctx, ctx)

adead_get_backend(rtp, rt) ==
    IF rtp # NULL THEN rt.active_backend ELSE ADEAD_BACKEND_CPU

\* cpu_vtable.name is "CPU"
adead_get_backend_name(rtp, rt) ==
    IF rtp = NULL \/ rt.backend_vtable = NULL THEN "Unknown" ELSE "CPU"

\* the descriptor adead_tensor_create has filled in before it calls the
\* backend allocator
TensorLayout(rt, shape, ndim, dtype) ==
    LET dims == CopyShape(ZeroDims, shape, ndim, 1)
        elem_size == adead_dtype_size(dtype)
        t0 == [ZeroTensor EXCEPT !.shape = dims, !.ndim = ndim]
        numel == adead_tensor_numel(t0)
        strides == StrideLoop([ZeroDims EXCEPT ![ndim] = elem_size], shape, ndim - 1)
    IN  [data |-> NULL, shape |-> dims, strides |-> strides, ndim |-> ndim,
         dtype |-> dtype, device |-> rt.active_backend,
         size_bytes |-> Wrap(numel * elem_size)]

\* adead_tensor_create: m is the result of the malloc made by cpu_alloc
adead_tensor_create(rtp, rt, ctx, heap, tp, tensor, shapep, shape, ndim, dtype, m) ==
    IF rtp = NULL \/ tp = NULL \/ shapep = NULL \/ ndim = 0 \/ ndim > ADEAD_MAX_DIMS
    THEN [rt |-> rt, ctx |-> ctx, heap |-> heap, tensor |-> tensor,
          ret |-> ADEAD_ERROR_INVALID_PARAM, calls |-> <<>>, ub |-> FALSE]
    ELSE LET t == TensorLayout(rt, shape, ndim, dtype) IN
         IF rt.backend_vtable = NULL
         THEN [rt |-> rt, ctx |-> ctx, heap |-> heap, tensor |-> t,
               ret |-> NoReturn, calls |-> <<>>, ub |-> TRUE]
         ELSE LET r == cpu_alloc(rt.backend_ctx, ctx, heap, t.size_bytes, m) IN
              [rt |-> rt, ctx |-> r.ctx, heap |-> r.heap,
               tensor |-> [t EXCEPT !.data = r.ptr],
               ret |-> IF r.ub THEN NoReturn
                       ELSE IF r.ptr = NULL THEN ADEAD_ERROR_OUT_OF_MEMORY
                       ELSE ADEAD_OK,
               calls |-> <<BackendCall("alloc", rt.backend_ctx, <<>>)>>, ub |-> r.ub]

\* adead_tensor_destroy that books the release in the memory manager
adead_tensor_destroy_booked(rtp, rt, heap, tp, tensor) ==
    IF rtp = NULL \/ tp = NULL \/ tensor.data = NULL
    THEN [rt |-> rt, heap |-> heap, tensor |-> tensor, calls |-> <<>>, ub |-> FALSE]
    ELSE IF rt.backend_vtable = NULL
    THEN [rt |-> rt, heap |-> heap, tensor |-> tensor, calls |-> <<>>, ub |-> TRUE]
    ELSE [rt |-> [rt EXCEPT !.memory = adead_memory_scratch_reset(rt.memory)],
          heap |-> cpu_free(heap, tensor.data), tensor |-> ZeroTensor,
          calls |-> <<BackendCall("free", rt.backend_ctx, <<>>)>>, ub |-> FALSE]

\* adead_tensor_destroy that leaves the descriptor as it is after the release
adead_tensor_destroy_nozero(rtp, rt, heap, tp, tensor) ==
    IF rtp = NULL \/ tp = NULL \/ tensor.data = NULL
    THEN [rt |-> rt, heap |-> heap, tensor |-> tensor, calls |-> <<>>, ub |-> FALSE]
    ELSE IF rt.backend_vtable = NULL
    THEN [rt |-> rt, heap |-> heap, tensor |-> tensor, calls |-> <<>>, ub |-> TRUE]
    ELSE [rt |-> rt, heap |-> cpu_free(heap, tensor.data), tensor |-> tensor,
          calls |-> <<BackendCall("free", rt.backend_ctx, <<>>)>>, ub |-> FALSE]

adead_tensor_destroy(rtp, rt, heap, tp, tensor) ==
    IF rtp = NULL \/ tp = NULL \/ tensor.data = NULL
    THEN [rt |-> rt, heap |-> heap, tensor |-> tensor, calls |-> <<>>, ub |-> FALSE]
    ELSE IF rt.backend_vtable = NULL
    THEN [rt |-> rt, heap |-> heap, tensor |-> tensor, calls |-> <<>>, ub |-> TRUE]
    ELSE [rt |-> rt, heap |-> cpu_free(heap, tensor.data), tensor |-> ZeroTensor,
          calls |-> <<BackendCall("free", rt.backend_ctx, <<>>)>>, ub |-> FALSE]

\* memcpy(dst, src, size) into the heap buffer at dst: defined when nothing is
\* copied or dst is a live buffer of at least size bytes and src holds size bytes
MemcpyDefined(buf, src, size) ==
    size = 0 \/ (buf.live /\ size <= Len(buf.bytes) /\ size <= Len(src))

CopyBytes(dst, src, size) ==
    [i \in 1..Len(dst) |-> IF i <= size THEN src[i] ELSE dst[i]]

BufferAt(heap, ptr) == IF ptr = NULL THEN NoBuffer ELSE heap[ptr]

\* the byte count the copy operations pass on, without the clamp
CopyCount_Unclamped(size, size_bytes) == size

\* the byte count the copy operations pass on
CopyCount(size, size_bytes) == IF size > size_bytes THEN size_bytes ELSE size

\* adead_tensor_copy_from: data holds the bytes of the caller's buffer
adead_tensor_copy_from(rtp, rt, heap, tp, tensor, datap, data, size) ==
    IF rtp = NULL \/ tp = NULL \/ datap = NULL
    THEN [rt |-> rt, heap |-> heap, ret |-> ADEAD_ERROR_INVALID_PARAM,
          calls |-> <<>>, ub |-> FALSE]
    ELSE LET n == CopyCount(size, tensor.size_bytes)
             buf == BufferAt(heap, tensor.data)
         IN
         IF rt.backend_vtable = NULL
         THEN [rt |-> rt, heap |-> heap, ret |-> NoReturn, calls |-> <<>>, ub |-> TRUE]
         ELSE IF ~ MemcpyDefined(buf, data, n)
         THEN [rt |-> rt, heap |-> heap, ret |-> NoReturn,
               calls |-> <<BackendCall("copy_h2d", rt.backend_ctx, <<>>)>>, ub |-> TRUE]
         ELSE [rt |-> rt,
               heap |-> IF n = 0 THEN heap
                        ELSE [heap EXCEPT ![tensor.data].bytes = CopyBytes(buf.bytes, data, n)],
               ret |-> ADEAD_OK,
               calls |-> <<BackendCall("copy_h2d", rt.backend_ctx, <<>>)>>, ub |-> FALSE]

\* adead_tensor_copy_to: data holds the bytes of the caller's buffer, which
\* the call returns updated
adead_tensor_copy_to(rtp, rt, heap, tp, tensor, datap, data, size) ==
    IF rtp = NULL \/ tp = NULL \/ datap = NULL
    THEN [rt |-> rt, data |-> data, ret |-> ADEAD_ERROR_INVALID_PARAM,
          calls |-> <<>>, ub |-> FALSE]
    ELSE LET n == CopyCount(size, tensor.size_bytes)
             buf == BufferAt(heap, tensor.data)
         IN
         IF rt.backend_vtable = NULL
         THEN [rt |-> rt, data |-> data, ret |-> NoReturn, calls |-> <<>>, ub |-> TRUE]
         ELSE IF ~ MemcpyDefined(buf, data, n)
         THEN [rt |-> rt, data |-> data, ret |-> NoReturn,
               calls |-> <<BackendCall("copy_d2h", rt.backend_ctx, <<>>)>>, ub |-> TRUE]
         ELSE [rt |-> rt,
               data |-> IF n = 0 THEN data ELSE CopyBytes(data, buf.bytes, n),
               ret |-> ADEAD_OK,
               calls |-> <<BackendCall("copy_d2h", rt.backend_ctx, <<>>)>>, ub |-> FALSE]

\* sizeof(f32)
F32Size == 4

\* a kernel reads or writes n floats starting at ptr: defined when nothing is
\* accessed or ptr is a live buffer holding at least n floats
AccessDefined(heap, ptr, n) ==
    n = 0 \/ (ptr # NULL /\ heap[ptr].live /\ n * F32Size <= Len(heap[ptr].bytes))

\* the heap after a kernel has stored n floats at ptr
StoreComputed(heap, ptr, n) ==
    IF n = 0 THEN heap
    ELSE [heap EXCEPT ![ptr].bytes =
            [i \in 1..Len(heap[ptr].bytes) |->
                IF i <= n * F32Size THEN Computed ELSE heap[ptr].bytes[i]]]

\* a kernel run that reads the float ranges in reads and stores the range wr
RunKernel(heap, reads, wr) ==
    IF \A x \in reads \cup {wr} : AccessDefined(heap, x[1], x[2])
    THEN [heap |-> StoreComputed(heap, wr[1], wr[2]), ub |-> FALSE]
    ELSE [heap |-> heap, ub |-> TRUE]

\* cpu_matmul: a[0 .. m*k), b[0 .. k*n) are read when all three loops run,
\* c[0 .. m*n) is stored when the outer two run
cpu_matmul(heap, a, b, c, m, n, k) ==
    RunKernel(heap,
              {<<a, IF m > 0 /\ n > 0 /\ k > 0 THEN m * k ELSE 0>>,
               <<b, IF m > 0 /\ n > 0 /\ k > 0 THEN k * n ELSE 0>>},
              <<c, IF m > 0 /\ n > 0 THEN m * n ELSE 0>>)

\* the innermost loop of cpu_matmul for element (i, j): sum after the terms
\* l .. k-1 have been added; the arrays are 1-based here
RECURSIVE MatmulSum(_, _, _, _, _, _, _, _)
MatmulSum(a, b, i, j, l, n, k, sum) ==
    IF l >= k THEN sum
    ELSE MatmulSum(a, b, i, j, l + 1, n, k, sum + a[i * k + l + 1] * b[l * n + j + 1])

\* the floats cpu_matmul stores in c: c[i * n + j] for every i < m and j < n;
\* the values are integers of small magnitude, which f32 adds and multiplies
\* exactly
MatmulStore_colmajor(a, b, m, n, k) ==
    [x \in 1..(m * n) |-> MatmulSum(a, b, (x - 1) % m, (x - 1) \div m, 0, n, k, 0)]

MatmulStore(a, b, m, n, k) ==
    [x \in 1..(m * n) |-> MatmulSum(a, b, (x - 1) \div n, (x - 1) % n, 0, n, k, 0)]

cpu_add(heap, a, b, c, size) ==
    RunKernel(heap, {<<a, size>>, <<b, size>>}, <<c, size>>)

cpu_relu(heap, in, out, size) ==
    RunKernel(heap, {<<in, size>>}, <<out, size>>)

\* cpu_softmax reads row_in[0] of every row, also when cols is 0
cpu_softmax(heap, in, out, rows, cols) ==
    RunKernel(heap,
              {<<in, IF rows > 0 THEN (rows - 1) * cols + Max(cols, 1) ELSE 0>>},
              <<out, rows * cols>>)

\* the result of a numeric wrapper that has forwarded to kernel run k with the
\* size arguments args
Forwarded(rt, heap, fn, args, k) ==
    [rt |-> rt, heap |-> k.heap, ret |-> IF k.ub THEN NoReturn ELSE ADEAD_OK,
     calls |-> <<BackendCall(fn, rt.backend_ctx, args)>>, ub |-> k.ub]

Rejected(rt, heap) ==
    [rt |-> rt, heap |-> heap, ret |-> ADEAD_ERROR_INVALID_PARAM,
     calls |-> <<>>, ub |-> FALSE]

\* a call through the null capability table
NullTableCall(rt, heap) ==
    [rt |-> rt, heap |-> heap, ret |-> NoReturn, calls |-> <<>>, ub |-> TRUE]

\* adead_matmul that reports operands whose inner dimensions differ
adead_matmul_checked(rtp, rt, heap, ap, a, bp, b, cp, c) ==
    IF rtp = NULL \/ ap = NULL \/ bp = NULL \/ cp = NULL THEN Rejected(rt, heap)
    ELSE IF a.shape[2] # b.shape[1] THEN Rejected(rt, heap)
    ELSE IF rt.backend_vtable = NULL THEN NullTableCall(rt, heap)
    ELSE LET m == a.shape[1]
             k == a.shape[2]
             n == b.shape[2]
         IN  Forwarded(rt, heap, "matmul", <<m, n, k>>,
                       cpu_matmul(heap, a.data, b.data, c.data, m, n, k))

adead_matmul(rtp, rt, heap, ap, a, bp, b, cp, c) ==
    IF rtp = NULL \/ ap = NULL \/ bp = NULL \/ cp = NULL THEN Rejected(rt, heap)
    ELSE IF rt.backend_vtable = NULL THEN NullTableCall(rt, heap)
    ELSE LET m == a.shape[1]
             k == a.shape[2]
             n == b.shape[2]
         IN  Forwarded(rt, heap, "matmul", <<m, n, k>>,
                       cpu_matmul(heap, a.data, b.data, c.data, m, n, k))

adead_add(rtp, rt, heap, ap, a, bp, b, cp, c) ==
    IF rtp = NULL \/ ap = NULL \/ bp = NULL \/ cp = NULL THEN Rejected(rt, heap)
    ELSE IF rt.backend_vtable = NULL THEN NullTableCall(rt, heap)
    ELSE LET size == adead_tensor_numel(a) IN
         Forwarded(rt, heap, "add", <<size>>,
                   cpu_add(heap, a.data, b.data, c.data, size))

adead_relu(rtp, rt, heap, inp, in, outp, out) ==
    IF rtp = NULL \/ inp = NULL \/ outp = NULL THEN Rejected(rt, heap)
    ELSE IF rt.backend_vtable = NULL THEN NullTableCall(rt, heap)
    ELSE LET size == adead_tensor_numel(in) IN
         Forwarded(rt, heap, "relu", <<size>>,
                   cpu_relu(heap, in.data, out.data, size))

adead_softmax(rtp, rt, heap, inp, in, outp, out) ==
    IF rtp = NULL \/ inp = NULL \/ outp = NULL THEN Rejected(rt, heap)
    ELSE IF rt.backend_vtable = NULL THEN NullTableCall(rt, heap)
    ELSE LET rows == in.shape[1]
             cols == in.shape[2]
         IN  Forwarded(rt, heap, "softmax", <<rows, cols>>,
                       cpu_softmax(heap, in.data, out.data, rows, cols))

\* inputs of the runtime operations
RtPtrs == {NULL, PTR}
\* calls of adead_init: the four backend identities and one value outside the
\* enumeration with all allocations succeeding, each allocation failing in
\* turn, a null runtime pointer
RtCtxAddr == 3072
InitCalls ==
    {[rtp |-> PTR, backend |-> b, mi |-> RtMemoryReady, m3 |-> RtCtxAddr] :
        b \in {ADEAD_BACKEND_CPU, ADEAD_BACKEND_CUDA, ADEAD_BACKEND_VULKAN,
               ADEAD_BACKEND_AUTO, 7}}
    \cup {[rtp |-> PTR, backend |-> ADEAD_BACKEND_CUDA, mi |-> RtMemoryNoArena,
           m3 |-> RtCtxAddr],
          [rtp |-> PTR, backend |-> ADEAD_BACKEND_CUDA, mi |-> RtMemoryNoPool,
           m3 |-> RtCtxAddr],
          [rtp |-> PTR, backend |-> ADEAD_BACKEND_CUDA, mi |-> RtMemoryReady,
           m3 |-> NULL],
          [rtp |-> NULL, backend |-> ADEAD_BACKEND_CPU, mi |-> RtMemoryReady,
           m3 |-> RtCtxAddr]}
TensorIds == {1, 2}
\* addresses malloc can return for tensor storage
DataAddrs == {3200, 3600}
\* (shape, dtype) arguments of adead_tensor_create used to examine the layout
\* it computes: every dtype and one value outside the enumeration on shape
\* [2,3]; 1, 2, 3, 8 and 9 dimensions, an empty shape, a zero dimension and a
\* shape whose element count fits in usize and whose byte size wraps for f32
LayoutInputs ==
    {[shape |-> <<2, 3>>, dtype |-> d] : d \in 0..8}
    \cup {[shape |-> s, dtype |-> 0] :
            s \in {<<>>, <<1>>, <<2, 2>>, <<2, 3, 4>>, <<0, 5>>,
                   <<1, 1, 1, 1, 1, 1, 1, 2>>, <<1, 1, 1, 1, 1, 1, 1, 1, 2>>,
                   <<32, UsizeMod \div 128>>}}
\* calls of adead_tensor_create used with the other runtime operations: valid
\* pointers with a 2x2 f32 matrix and with 6 bytes, which is less than the
\* caller's buffer holds, and each pointer null in turn
CreateCalls ==
    {[rtp |-> PTR, tp |-> 1, shapep |-> PTR, shape |-> x.shape, dtype |-> x.dtype] :
        x \in {[shape |-> <<2, 2>>, dtype |-> 0], [shape |-> <<2, 3>>, dtype |-> 4]}}
    \cup {[rtp |-> PTR, tp |-> 2, shapep |-> PTR, shape |-> <<2, 2>>, dtype |-> 0]}
    \cup {[rtp |-> p[1], tp |-> p[2], shapep |-> p[3], shape |-> <<2, 2>>, dtype |-> 0] :
            p \in {<<NULL, 1, PTR>>, <<PTR, NULL, PTR>>, <<PTR, 1, NULL>>}}
\* (rt, tensor) pointer arguments of adead_tensor_destroy
DestroyArgs == {<<PTR, t>> : t \in TensorIds} \cup {<<NULL, 1>>, <<PTR, NULL>>}
\* the caller's buffer for the copy operations
HostLen == 8
HostData == [i \in 1..HostLen |-> i]
\* calls of the copy operations: every descriptor with valid pointers and a
\* size of 4 and of the whole buffer, and each pointer null in turn
CopyCalls ==
    {[rtp |-> PTR, tp |-> t, datap |-> PTR, size |-> n] :
        t \in TensorIds, n \in {4, HostLen}}
    \cup {[rtp |-> p[1], tp |-> p[2], datap |-> p[3], size |-> HostLen] :
            p \in {<<NULL, 1, PTR>>, <<PTR, NULL, PTR>>, <<PTR, 1, NULL>>}}
\* (rt, a, b, c) and (rt, in, out) arguments of the numeric operations
Operands3 == {<<PTR, 1, 1, 2>>, <<PTR, 1, 2, 2>>, <<PTR, 1, 1, 1>>, <<NULL, 1, 2, 2>>,
              <<PTR, NULL, 1, 2>>, <<PTR, 1, NULL, 2>>, <<PTR, 1, 2, NULL>>}
Operands2 == {<<PTR, 1, 2>>, <<PTR, 1, 1>>, <<NULL, 1, 2>>,
              <<PTR, NULL, 1>>, <<PTR, 1, NULL>>}

\* arguments of cpu_matmul: all 2x2 operands with entries -1, 0, 1, the identity
\* with [[1,2],[3,4]] on either side, and 1x2 by 2x3 and 2x3 by 3x1 operands
MatmulInputs ==
    {[a |-> a, b |-> b, m |-> 2, n |-> 2, k |-> 2] :
        a \in [1..4 -> {0 - 1, 0, 1}], b \in [1..4 -> {0 - 1, 0, 1}]}
    \cup {[a |-> <<1, 0, 0, 1>>, b |-> <<1, 2, 3, 4>>, m |-> 2, n |-> 2, k |-> 2],
          [a |-> <<1, 2, 3, 4>>, b |-> <<1, 0, 0, 1>>, m |-> 2, n |-> 2, k |-> 2]}
    \cup {[a |-> a, b |-> b, m |-> 1, n |-> 3, k |-> 2] :
            a \in [1..2 -> {1, 2}], b \in [1..6 -> {0, 3}]}
    \cup {[a |-> a, b |-> b, m |-> 2, n |-> 1, k |-> 3] :
            a \in [1..6 -> {0, 1}], b \in [1..3 -> {0 - 2, 5}]}

\* malloc returns NULL or the lowest address not in use
DataMallocResults(heap) ==
    {NULL} \cup {a \in DataAddrs :
                    /\ ~ heap[a].live
                    /\ \A b \in DataAddrs : (~ heap[b].live) => a <= b}

TensorAt(tens, tp) == IF tp = NULL THEN ZeroTensor ELSE tens[tp]

NoRtCall == [op |-> "none", rt |-> NULL, ret |-> ADEAD_OK, name |-> "", calls |-> <<>>,
             t |-> NULL, size |-> 0]
\* the record of a call: operation, runtime pointer, result, backend functions
\* invoked, and the tensor and size arguments, which are kept for the calls
\* whose pointer arguments ptrs are all non-null
RtCall(op, ptrs, ret, calls, t, size) ==
    IF \E i \in 1..Len(ptrs) : ptrs[i] = NULL
    THEN [op |-> op, rt |-> ptrs[1], ret |-> ret, name |-> "", calls |-> calls,
          t |-> NULL, size |-> 0]
    ELSE [op |-> op, rt |-> ptrs[1], ret |-> ret, name |-> "", calls |-> calls,
          t |-> t, size |-> size]
NoLife == [life |-> "none", ctx |-> NULL]

VARIABLES
    arena,      \* the ADeadArena structure
    alast,      \* the last arena call: operation, arguments, result
    afits,      \* every allocation since the last init/reset fitted (no wrap, no failure)
    ahigh,      \* the largest value of arena.offset since the last successful init
    aregions    \* the regions <<ptr, size>> returned by adead_arena_alloc since the last init/reset

VARIABLES
    pool,       \* the ADeadPool structure
    pmem,       \* the bytes of the pool's buffer
    plast,      \* the last pool call: operation, pointer argument, result
    pseq,       \* results of adead_pool_alloc since the last accepted free, init or reset
    pfrees,     \* number of accepted adead_pool_free calls on the current buffer
    pclean,     \* no adead_pool_free was accepted since the last init or reset
    pstack,     \* pairwise distinct block addresses freed and not yet reallocated, oldest first
    pout,       \* the addresses returned by adead_pool_alloc and not freed since
    pdisc       \* every adead_pool_free call since the last init or reset was given an address in pout

VARIABLES
    mm,         \* the ADeadMemoryManager structure
    mmem,       \* the bytes of the tensor pool's buffer
    mlast,      \* the last memory-manager call: operation, size argument, result
    msum,       \* sum of the sizes of the successful scratch allocations since init
    msteps      \* calls made on the manager since adead_memory_init

VARIABLES
    rt,         \* the ADeadRuntime structure
    rmem,       \* the bytes of the buffer of rt.memory.tensor_pool
    bctx,       \* the CPUBackendCtx that rt.backend_ctx points to
    tens,       \* the caller's ADeadTensor descriptors
    heap,       \* the buffers cpu_alloc has obtained from malloc
    host,       \* the caller's destination buffer of adead_tensor_copy_to
    rlast,      \* the last runtime call: operation, result, backend functions invoked
    rhist,      \* the last init/shutdown call on the context and what a successful init got
    rmade,      \* descriptors filled by a successful adead_tensor_create with no backend free since
    rsum,       \* sum of size_bytes over the successful adead_tensor_create calls since the last adead_init
    rsteps,     \* tensor and numeric calls made so far; a run ends with the last of them
    rstatus     \* "ok", or the outcome of a call whose behaviour was undefined

VARIABLES
    kin,        \* the arguments of a cpu_matmul call: the floats of a and b, and m, n, k
    kout        \* the floats of c after the call, empty before it

avars == <<arena, alast, afits, ahigh, aregions>>
pvars == <<pool, pmem, plast, pseq, pfrees, pclean, pstack, pout, pdisc>>
mvars == <<mm, mmem, mlast, msum, msteps>>
rvars == <<rt, rmem, bctx, tens, heap, host, rlast, rhist, rmade, rsum, rsteps, rstatus>>
kvars == <<kin, kout>>
vars == <<arena, alast, afits, ahigh, aregions, pool, pmem, plast, pseq, pfrees, pclean, pstack,
          pout, pdisc,
          mm, mmem, mlast, msum, msteps,
          rt, rmem, bctx, tens, heap, host, rlast, rhist, rmade, rsum, rsteps, rstatus,
          kin, kout>>

NoCall == [op |-> "none", size |-> 0, alignment |-> 0, ret |-> NULL]
NoMMCall == [op |-> "none", size |-> 0, ret |-> NULL]
NoPoolCall == [op |-> "none", arg |-> NULL, expect |-> NULL, ret |-> NULL]

ArenaInitState ==
    /\ arena = ZeroArena
    /\ alast = NoCall
    /\ afits = TRUE
    /\ ahigh = 0
    /\ aregions = {}

PoolInitState ==
    /\ pool = ZeroPool
    /\ pmem = <<>>
    /\ plast = NoPoolCall
    /\ pseq = <<>>
    /\ pfrees = 0
    /\ pclean = TRUE
    /\ pstack = <<>>
    /\ pout = {}
    /\ pdisc = TRUE

MMInitState ==
    /\ mm = ZeroMM
    /\ mmem = <<>>
    /\ mlast = NoMMCall
    /\ msum = 0
    /\ msteps = 0

(***************************************************************************)
(* Arena operations.                                                       *)
(***************************************************************************)
ArenaInit ==
    /\ \E capacity \in ArenaCaps, m \in MallocResults :
        LET r == adead_arena_init(arena, capacity, m) IN
        /\ arena' = r.arena
        /\ alast' = [op |-> "init", size |-> capacity, alignment |-> 0, ret |-> r.err]
        /\ afits' = TRUE
        /\ ahigh' = IF r.err = ADEAD_OK THEN 0 ELSE ahigh
        /\ aregions' = {}
    /\ UNCHANGED <<pvars, mvars, rvars, kvars>>

ArenaAlloc ==
    /\ Cardinality(aregions) < MaxRegions
    /\ \E size \in ArenaSizes, alignment \in ArenaAligns :
        LET r == adead_arena_alloc(arena, size, alignment) IN
        /\ arena' = r.arena
        /\ alast' = [op |-> "alloc", size |-> size, alignment |-> alignment,
                     ret |-> r.ptr]
        /\ afits' = (afits /\ arena.base # NULL /\ size > 0
                     /\ adead_align_up(arena.offset, alignment) + size <= arena.capacity)
        /\ ahigh' = Max(ahigh, r.arena.offset)
        /\ aregions' = IF r.ptr = NULL THEN aregions ELSE aregions \cup {<<r.ptr, size>>}
    /\ UNCHANGED <<pvars, mvars, rvars, kvars>>

ArenaReset ==
    /\ arena' = adead_arena_reset(arena)
    /\ alast' = [op |-> "reset", size |-> 0, alignment |-> 0, ret |-> NULL]
    /\ afits' = TRUE
    /\ UNCHANGED ahigh
    /\ aregions' = {}
    /\ UNCHANGED <<pvars, mvars, rvars, kvars>>

ArenaDestroy ==
    /\ arena' = adead_arena_destroy(arena)
    /\ alast' = [op |-> "destroy", size |-> 0, alignment |-> 0, ret |-> NULL]
    /\ afits' = TRUE
    /\ ahigh' = 0
    /\ aregions' = {}
    /\ UNCHANGED <<pvars, mvars, rvars, kvars>>

ArenaNext ==
    \/ ArenaInit
    \/ ArenaAlloc
    \/ ArenaReset
    \/ ArenaDestroy

(***************************************************************************)
(* Pool operations.                                                        *)
(***************************************************************************)
\* adead_pool_init on a pool structure that holds no buffer
PoolInit ==
    /\ pool.base = NULL
    /\ \E block_size \in PoolBlockSizes, num_blocks \in PoolNumBlocks, m \in PoolMallocResults :
        LET r == adead_pool_init(pool, pmem, block_size, num_blocks, m) IN
        /\ pool' = r.pool
        /\ pmem' = r.mem
        /\ plast' = [op |-> "init", arg |-> NULL, expect |-> NULL, ret |-> r.err]
    /\ pseq' = <<>>
    /\ pfrees' = 0
    /\ pclean' = TRUE
    /\ pstack' = <<>>
    /\ pout' = {}
    /\ pdisc' = TRUE
    /\ UNCHANGED <<avars, mvars, rvars, kvars>>

PoolAlloc ==
    /\ Len(pseq) < MaxAllocRun
    /\ \E nxt \in (IF pool.free_list = NULL THEN {NULL}
                   ELSE ReadPtr(pmem, pool.base, pool.free_list)) :
        LET r == adead_pool_alloc(pool, nxt) IN
        /\ pool' = r.pool
        /\ plast' = [op |-> "alloc", arg |-> NULL,
                     expect |-> IF pstack = <<>> THEN NULL ELSE pstack[Len(pstack)],
                     ret |-> r.ptr]
        /\ pseq' = Append(pseq, r.ptr)
        /\ pout' = pout \cup ({r.ptr} \ {NULL})
    /\ pstack' = IF pstack = <<>> THEN <<>> ELSE Front(pstack)
    /\ UNCHANGED <<pmem, pfrees, pclean, pdisc>>
    /\ UNCHANGED <<avars, mvars, rvars, kvars>>

PoolFree ==
    /\ \E ptr \in FreePtrs(pool) :
        LET r == adead_pool_free(pool, pmem, ptr) IN
        /\ r.done => pfrees < MaxFrees
        /\ pool' = r.pool
        /\ pmem' = r.mem
        /\ plast' = [op |-> "free", arg |-> ptr, expect |-> NULL,
                     ret |-> IF r.done THEN 1 ELSE 0]
        /\ pseq' = IF r.done THEN <<>> ELSE pseq
        /\ pfrees' = IF r.done THEN pfrees + 1 ELSE pfrees
        /\ pclean' = (pclean /\ ~ r.done)
        /\ pout' = pout \ {ptr}
        /\ pdisc' = (pdisc /\ ptr \in pout)
        /\ pstack' = IF ~ r.done THEN pstack
                     ELSE IF /\ ptr \in BlockAddrs(pool)
                             /\ ptr \notin SeqToSet(pstack)
                             /\ SeqToSet(pstack) \subseteq BlockAddrs(pool)
                          THEN Append(pstack, ptr)
                          ELSE <<ptr>>
    /\ UNCHANGED <<avars, mvars, rvars, kvars>>

PoolReset ==
    /\ LET r == adead_pool_reset(pool, pmem) IN
        /\ pool' = r.pool
        /\ pmem' = r.mem
    /\ plast' = [op |-> "reset", arg |-> NULL, expect |-> NULL, ret |-> NULL]
    /\ pseq' = <<>>
    /\ pfrees' = pfrees
    /\ pclean' = TRUE
    /\ pstack' = <<>>
    /\ pout' = {}
    /\ pdisc' = TRUE
    /\ UNCHANGED <<avars, mvars, rvars, kvars>>

PoolDestroy ==
    /\ LET r == adead_pool_destroy(pool, pmem) IN
        /\ pool' = r.pool
        /\ pmem' = r.mem
    /\ plast' = [op |-> "destroy", arg |-> NULL, expect |-> NULL, ret |-> NULL]
    /\ pseq' = <<>>
    /\ pfrees' = 0
    /\ pclean' = TRUE
    /\ pstack' = <<>>
    /\ pout' = {}
    /\ pdisc' = TRUE
    /\ UNCHANGED <<avars, mvars, rvars, kvars>>

PoolNext ==
    \/ PoolInit
    \/ PoolAlloc
    \/ PoolFree
    \/ PoolReset
    \/ PoolDestroy

(***************************************************************************)
(* Memory-manager operations.                                              *)
(***************************************************************************)
\* adead_memory_init on a manager that holds no buffer
MMInit ==
    /\ mm.scratch.base = NULL
    /\ mm.tensor_pool.base = NULL
    /\ \E scratch_size \in ScratchSizes, pool_size \in TensorPoolSizes,
          m1 \in MallocResults, m2 \in TensorPoolMallocResults :
        LET r == adead_memory_init(mm, mmem, scratch_size, pool_size, m1, m2) IN
        /\ mm' = r.mm
        /\ mmem' = r.mem
        /\ mlast' = [op |-> "init", size |-> scratch_size, ret |-> r.err]
    /\ msum' = 0
    /\ msteps' = 0
    /\ UNCHANGED <<avars, pvars, rvars, kvars>>

MMScratch ==
    /\ msteps < MaxMMSteps
    /\ \E size \in ScratchAllocSizes :
        LET r == adead_memory_scratch(mm, size) IN
        /\ mm' = r.mm
        /\ mlast' = [op |-> "scratch", size |-> size, ret |-> r.ptr]
        /\ msum' = IF r.ptr # NULL THEN msum + size ELSE msum
    /\ msteps' = msteps + 1
    /\ UNCHANGED mmem
    /\ UNCHANGED <<avars, pvars, rvars, kvars>>

MMScratchReset ==
    /\ msteps < MaxMMSteps
    /\ mm' = adead_memory_scratch_reset(mm)
    /\ mlast' = [op |-> "scratch_reset", size |-> 0, ret |-> NULL]
    /\ msteps' = msteps + 1
    /\ UNCHANGED <<mmem, msum>>
    /\ UNCHANGED <<avars, pvars, rvars, kvars>>

MMStats ==
    /\ msteps < MaxMMSteps
    /\ mlast' = [op |-> "stats", size |-> 0, ret |-> adead_memory_stats(mm)]
    /\ msteps' = msteps + 1
    /\ UNCHANGED <<mm, mmem, msum>>
    /\ UNCHANGED <<avars, pvars, rvars, kvars>>

MMDestroy ==
    /\ LET r == adead_memory_destroy(mm, mmem) IN
        /\ mm' = r.mm
        /\ mmem' = r.mem
    /\ mlast' = [op |-> "destroy", size |-> 0, ret |-> NULL]
    /\ msum' = 0
    /\ msteps' = 0
    /\ UNCHANGED <<avars, pvars, rvars, kvars>>

MMNext ==
    \/ MMInit
    \/ MMScratch
    \/ MMScratchReset
    \/ MMStats
    \/ MMDestroy

(***************************************************************************)
(* Runtime operations.  A call whose behaviour is undefined ends the run   *)
(* with one of UBOutcomes; nothing is modelled after it.                   *)
(***************************************************************************)
RtInitState ==
    /\ rt = ZeroRuntime
    /\ rmem = <<>>
    /\ bctx = ZeroCtx
    /\ tens = [t \in TensorIds |-> ZeroTensor]
    /\ heap = [a \in DataAddrs |-> NoBuffer]
    /\ host = [i \in 1..HostLen |-> 0]
    /\ rlast = NoRtCall
    /\ rhist = NoLife
    /\ rmade = {}
    /\ rsum = 0
    /\ rsteps = 0
    /\ rstatus = "ok"

\* the outcome of a call: defined, or one of the outcomes of undefined behaviour
Outcome(ub) ==
    IF ub THEN rstatus' \in UBOutcomes ELSE rstatus' = "ok"

RtInit ==
    /\ rstatus = "ok"
    /\ rsteps < MaxRtSteps
    /\ \E c \in InitCalls :
        LET r == adead_init(c.rtp, rt, bctx, rmem, c.backend, c.mi, c.m3) IN
        /\ rt' = r.rt
        /\ bctx' = r.ctx
        /\ rmem' = r.mem
        /\ rlast' = [RtCall("init", <<c.rtp>>, r.ret, r.calls, NULL, 0) EXCEPT !.size = c.backend]
        /\ rhist' = IF c.rtp = NULL THEN rhist
                    ELSE IF r.ret = ADEAD_OK
                    THEN [life |-> "init_ok", ctx |-> r.rt.backend_ctx]
                    ELSE [life |-> "init_failed", ctx |-> NULL]
        /\ rsum' = IF c.rtp = NULL THEN rsum ELSE 0
    /\ UNCHANGED <<tens, heap, host, rmade, rsteps, rstatus>>
    /\ UNCHANGED <<avars, pvars, mvars, kvars>>

RtShutdown ==
    /\ rstatus = "ok"
    /\ rsteps < MaxRtSteps
    /\ \E rtp \in RtPtrs :
        LET r == adead_shutdown(rtp, rt, bctx, rmem) IN
        /\ rt' = r.rt
        /\ bctx' = r.ctx
        /\ rmem' = r.mem
        /\ rlast' = RtCall("shutdown", <<rtp>>, ADEAD_OK, r.calls, NULL, 0)
        /\ rhist' = IF rtp = NULL THEN rhist ELSE [rhist EXCEPT !.life = "shutdown"]
    /\ UNCHANGED <<tens, heap, host, rmade, rsum, rsteps, rstatus>>
    /\ UNCHANGED <<avars, pvars, mvars, kvars>>

RtGetBackend ==
    /\ rstatus = "ok"
    /\ rsteps < MaxRtSteps
    /\ \E rtp \in RtPtrs :
        rlast' = RtCall("get_backend", <<rtp>>, adead_get_backend(rtp, rt), <<>>, NULL, 0)
    /\ UNCHANGED <<rt, rmem, bctx, tens, heap, host, rhist, rmade, rsum, rsteps, rstatus>>
    /\ UNCHANGED <<avars, pvars, mvars, kvars>>

RtGetBackendName ==
    /\ rstatus = "ok"
    /\ rsteps < MaxRtSteps
    /\ \E rtp \in RtPtrs :
        rlast' = [RtCall("get_backend_name", <<rtp>>, ADEAD_OK, <<>>, NULL, 0)
                    EXCEPT !.name = adead_get_backend_name(rtp, rt)]
    /\ UNCHANGED <<rt, rmem, bctx, tens, heap, host, rhist, rmade, rsum, rsteps, rstatus>>
    /\ UNCHANGED <<avars, pvars, mvars, kvars>>

RtMemoryUsed ==
    /\ rstatus = "ok"
    /\ rsteps < MaxRtSteps
    /\ \E rtp \in RtPtrs :
        rlast' = RtCall("memory_used", <<rtp>>, adead_memory_used(rtp, rt, bctx),
                        <<>>, NULL, 0)
    /\ UNCHANGED <<rt, rmem, bctx, tens, heap, host, rhist, rmade, rsum, rsteps, rstatus>>
    /\ UNCHANGED <<avars, pvars, mvars, kvars>>

\* the caller takes scratch memory from the live runtime's memory manager
RtScratch ==
    /\ rstatus = "ok"
    /\ rsteps < MaxRtSteps
    /\ rt.initialized = 1
    /\ \E size \in {100} :
        LET r == adead_memory_scratch(rt.memory, size) IN
        /\ rt' = [rt EXCEPT !.memory = r.mm]
        /\ rlast' = RtCall("scratch", <<PTR>>, ADEAD_OK, <<>>, NULL, size)
    /\ rsteps' = rsteps + 1
    /\ UNCHANGED <<rmem, bctx, tens, heap, host, rhist, rmade, rsum, rstatus>>
    /\ UNCHANGED <<avars, pvars, mvars, kvars>>

RtTensorCreate ==
    /\ rstatus = "ok"
    /\ rsteps < MaxRtSteps
    /\ \E c \in CreateCalls, m \in DataMallocResults(heap) :
        LET tp == c.tp
            r == adead_tensor_create(c.rtp, rt, bctx, heap, tp, TensorAt(tens, tp),
                                     c.shapep, c.shape, Len(c.shape), c.dtype, m)
        IN
        /\ rt' = r.rt
        /\ bctx' = r.ctx
        /\ heap' = r.heap
        /\ tens' = IF tp = NULL THEN tens ELSE [tens EXCEPT ![tp] = r.tensor]
        /\ rlast' = RtCall("tensor_create", <<c.rtp, tp, c.shapep>>, r.ret, r.calls, tp, 0)
        /\ rmade' = IF r.ret = ADEAD_OK THEN rmade \cup {tp} ELSE rmade
        /\ rsum' = IF r.ret = ADEAD_OK THEN rsum + r.tensor.size_bytes ELSE rsum
        /\ Outcome(r.ub)
    /\ rsteps' = rsteps + 1
    /\ UNCHANGED <<rmem, host, rhist>>
    /\ UNCHANGED <<avars, pvars, mvars, kvars>>

\* adead_tensor_create on the first descriptor, not in use, with the layout
\* inputs
RtTensorCreateAny ==
    /\ rstatus = "ok"
    /\ rsteps < MaxRtSteps
    /\ tens[1] = ZeroTensor
    /\ \E x \in LayoutInputs, m \in DataMallocResults(heap) :
        LET r == adead_tensor_create(PTR, rt, bctx, heap, 1, tens[1],
                                     PTR, x.shape, Len(x.shape), x.dtype, m)
        IN
        /\ rt' = r.rt
        /\ bctx' = r.ctx
        /\ heap' = r.heap
        /\ tens' = [tens EXCEPT ![1] = r.tensor]
        /\ rlast' = RtCall("tensor_create", <<PTR, 1, PTR>>, r.ret, r.calls, 1, 0)
        /\ rmade' = IF r.ret = ADEAD_OK THEN rmade \cup {1} ELSE rmade
        /\ rsum' = IF r.ret = ADEAD_OK THEN rsum + r.tensor.size_bytes ELSE rsum
        /\ Outcome(r.ub)
    /\ rsteps' = rsteps + 1
    /\ UNCHANGED <<rmem, host, rhist>>
    /\ UNCHANGED <<avars, pvars, mvars, kvars>>

RtTensorDestroy ==
    /\ rstatus = "ok"
    /\ rsteps < MaxRtSteps
    /\ \E pp \in DestroyArgs :
        LET tp == pp[2]
            r == adead_tensor_destroy(pp[1], rt, heap, tp, TensorAt(tens, tp))
        IN
        /\ rt' = r.rt
        /\ heap' = r.heap
        /\ tens' = IF tp = NULL THEN tens ELSE [tens EXCEPT ![tp] = r.tensor]
        /\ rlast' = RtCall("tensor_destroy", <<pp[1], tp>>, ADEAD_OK, r.calls, tp, 0)
        /\ rmade' = IF r.calls # <<>> THEN rmade \ {tp} ELSE rmade
        /\ Outcome(r.ub)
    /\ rsteps' = rsteps + 1
    /\ UNCHANGED <<rmem, bctx, host, rhist, rsum>>
    /\ UNCHANGED <<avars, pvars, mvars, kvars>>

RtTensorCopyFrom ==
    /\ rstatus = "ok"
    /\ rsteps < MaxRtSteps
    /\ \E c \in CopyCalls :
        LET tp == c.tp
            size == c.size
            r == adead_tensor_copy_from(c.rtp, rt, heap, tp, TensorAt(tens, tp),
                                        c.datap, HostData, size)
        IN
        /\ rt' = r.rt
        /\ heap' = r.heap
        /\ rlast' = RtCall("tensor_copy_from", <<c.rtp, tp, c.datap>>, r.ret, r.calls, tp, size)
        /\ Outcome(r.ub)
    /\ rsteps' = rsteps + 1
    /\ UNCHANGED <<rmem, bctx, tens, host, rhist, rmade, rsum>>
    /\ UNCHANGED <<avars, pvars, mvars, kvars>>

RtTensorCopyTo ==
    /\ rstatus = "ok"
    /\ rsteps < MaxRtSteps
    /\ \E c \in CopyCalls :
        LET tp == c.tp
            size == c.size
            r == adead_tensor_copy_to(c.rtp, rt, heap, tp, TensorAt(tens, tp),
                                      c.datap, host, size)
        IN
        /\ rt' = r.rt
        /\ host' = r.data
        /\ rlast' = RtCall("tensor_copy_to", <<c.rtp, tp, c.datap>>, r.ret, r.calls, tp, size)
        /\ Outcome(r.ub)
    /\ rsteps' = rsteps + 1
    /\ UNCHANGED <<rmem, bctx, tens, heap, rhist, rmade, rsum>>
    /\ UNCHANGED <<avars, pvars, mvars, kvars>>

\* the common part of the numeric operations: r is the wrapper's result; the
\* call record keeps the first operand as t and the second as size
RtNumeric(op, ptrs, r) ==
    /\ rt' = r.rt
    /\ heap' = r.heap
    /\ rlast' = RtCall(op, ptrs, r.ret, r.calls, ptrs[2], ptrs[3])
    /\ Outcome(r.ub)
    /\ rsteps' = rsteps + 1
    /\ UNCHANGED <<rmem, bctx, tens, host, rhist, rmade, rsum>>
    /\ UNCHANGED <<avars, pvars, mvars, kvars>>

RtMatmul ==
    /\ rstatus = "ok"
    /\ rsteps < MaxRtSteps
    /\ \E o \in Operands3 :
        RtNumeric("matmul", o, adead_matmul(o[1], rt, heap, o[2], TensorAt(tens, o[2]),
                      o[3], TensorAt(tens, o[3]), o[4], TensorAt(tens, o[4])))

RtAdd ==
    /\ rstatus = "ok"
    /\ rsteps < MaxRtSteps
    /\ \E o \in Operands3 :
        RtNumeric("add", o, adead_add(o[1], rt, heap, o[2], TensorAt(tens, o[2]),
                      o[3], TensorAt(tens, o[3]), o[4], TensorAt(tens, o[4])))

RtRelu ==
    /\ rstatus = "ok"
    /\ rsteps < MaxRtSteps
    /\ \E o \in Operands2 :
        RtNumeric("relu", o, adead_relu(o[1], rt, heap, o[2], TensorAt(tens, o[2]),
                      o[3], TensorAt(tens, o[3])))

RtSoftmax ==
    /\ rstatus = "ok"
    /\ rsteps < MaxRtSteps
    /\ \E o \in Operands2 :
        RtNumeric("softmax", o, adead_softmax(o[1], rt, heap, o[2], TensorAt(tens, o[2]),
                      o[3], TensorAt(tens, o[3])))

RtNext ==
    \/ RtInit
    \/ RtShutdown
    \/ RtGetBackend
    \/ RtGetBackendName
    \/ RtMemoryUsed
    \/ RtScratch
    \/ RtTensorCreate
    \/ RtTensorDestroy
    \/ RtTensorCopyFrom
    \/ RtTensorCopyTo
    \/ RtMatmul
    \/ RtAdd
    \/ RtRelu
    \/ RtSoftmax

\* the runtime's life cycle with tensor creation and destruction only
TensorNext ==
    \/ RtInit
    \/ RtShutdown
    \/ RtTensorCreateAny
    \/ RtTensorDestroy

\* cpu_matmul run on the arguments the behaviour started with
MatmulRun ==
    /\ kout = <<>>
    /\ kin.m * kin.n > 0
    /\ kout' = MatmulStore(kin.a, kin.b, kin.m, kin.n, kin.k)
    /\ UNCHANGED kin
    /\ UNCHANGED <<avars, pvars, mvars, rvars>>

Init ==
    /\ ArenaInitState
    /\ PoolInitState
    /\ MMInitState
    /\ RtInitState
    /\ kin = [a |-> <<>>, b |-> <<>>, m |-> 0, n |-> 0, k |-> 0]
    /\ kout = <<>>

\* the start of a behaviour that examines cpu_matmul on one of MatmulInputs
MatmulInit ==
    /\ ArenaInitState
    /\ PoolInitState
    /\ MMInitState
    /\ RtInitState
    /\ kin \in MatmulInputs
    /\ kout = <<>>

SpecArena == Init /\ [][ArenaNext]_vars
SpecPool == Init /\ [][PoolNext]_vars
SpecMM == Init /\ [][MMNext]_vars
SpecRuntime == Init /\ [][RtNext]_vars
SpecTensor == Init /\ [][TensorNext]_vars
SpecMatmul == MatmulInit /\ [][MatmulRun]_vars

(***************************************************************************)
(* Properties of the arena allocator.                                      *)
(***************************************************************************)

\* C1: on an initialised arena 0 <= offset <= capacity holds in every state
\* reached by adead_arena_alloc and adead_arena_reset calls.
C1_OffsetWithinCapacity ==
    arena.base # NULL => (0 <= arena.offset /\ arena.offset <= arena.capacity)

\* an allocation has just filled the arena to the last byte
C1_ArenaFilled ==
    /\ alast.op = "alloc"
    /\ alast.ret # NULL
    /\ arena.capacity > 0
    /\ arena.offset = arena.capacity

\* C2: adead_arena_alloc(size, alignment) with size > 0 and a power-of-two
\* alignment returns NULL exactly
\* when align_up(offset, alignment) + size exceeds capacity, and a failed call
\* leaves the arena (offset and peak) unchanged.
C2_FailsExactlyWhenOverCapacity ==
    [][(alast'.op = "alloc" /\ arena.base # NULL /\ alast'.size > 0
        /\ IsPow2(alast'.alignment)) =>
          /\ (alast'.ret = NULL) <=>
                (adead_align_up(arena.offset, alast'.alignment) + alast'.size
                    > arena.capacity)
          /\ (alast'.ret = NULL) => (arena' = arena)]_vars

\* C3: while the allocations made since init/reset fit the capacity, every
\* address returned for a power-of-two alignment lies in [base, base+capacity)
\* and is a multiple of that alignment.
C3_AddressInRangeAndAligned ==
    (alast.op = "alloc" /\ afits /\ IsPow2(alast.alignment)) =>
        /\ alast.ret # NULL
        /\ alast.ret >= arena.base
        /\ alast.ret < arena.base + arena.capacity
        /\ alast.ret % alast.alignment = 0

(***************************************************************************)
(* Properties of the pool allocator.                                       *)
(***************************************************************************)

\* C4: every address returned by adead_pool_alloc lies in
\* [base, base + block_size*capacity) and the free list never contains an
\* address outside that range, whatever accepted pointers were freed.
C4_PoolAddressesInRange ==
    pool.base # NULL =>
        /\ (plast.op = "alloc" /\ plast.ret # NULL) => InPoolRange(pool, plast.ret)
        /\ \A a \in SeqToSet(FreeListSeq(pool, pmem)) : InPoolRange(pool, a)

\* C5: with no free accepted since init or reset, the first capacity calls of
\* adead_pool_alloc return pairwise distinct block addresses and every later
\* call returns NULL with free_list and used as the last success left them.
C5_ExactlyCapacityAllocations ==
    (pool.base # NULL /\ pclean) =>
        /\ \A i \in 1..Len(pseq) :
              IF i <= pool.capacity
              THEN pseq[i] \in BlockAddrs(pool)
              ELSE pseq[i] = NULL
        /\ \A i, j \in 1..Len(pseq) :
              (i < j /\ j <= pool.capacity) => pseq[i] # pseq[j]
        /\ Len(pseq) <= pool.capacity => pool.used = Len(pseq)
        /\ Len(pseq) > pool.capacity =>
              (pool.free_list = NULL /\ pool.used = pool.capacity)

\* a pool of two blocks was drained and the third call failed
C5_PoolExhausted ==
    /\ pool.base # NULL
    /\ pclean
    /\ pool.capacity = 2
    /\ Len(pseq) = 3
    /\ pseq[3] = NULL
    /\ plast.op = "alloc"

\* C6: reuse is LIFO: adead_pool_alloc returns the most recently freed
\* address, and after several distinct blocks were freed the allocations
\* return them in reverse order of freeing.
C6_ReuseIsLIFO ==
    (plast.op = "alloc" /\ plast.expect # NULL) => plast.ret = plast.expect

\* two blocks were freed and the second allocation returned the first of them
C6_SecondReuse ==
    /\ plast.op = "alloc"
    /\ plast.expect # NULL
    /\ plast.ret = plast.expect
    /\ Len(pseq) = 2
    /\ pseq[1] # pseq[2]
    /\ pstack = <<>>

\* C7: adead_pool_free with NULL or with a pointer outside
\* [base, base + block_size*capacity) changes nothing: free_list, used and
\* every byte of the buffer (so every link) stay as they were.
C7_OutOfRangeFreeIgnored ==
    [][(plast'.op = "free"
        /\ (plast'.arg = NULL \/ ~ InPoolRange(pool, plast'.arg)))
       => (pool' = pool /\ pmem' = pmem)]_vars

\* an out-of-range pointer was handed to a pool with a block outstanding
C7_ForeignPointerFreed ==
    /\ plast.op = "free"
    /\ plast.arg # NULL
    /\ pool.base # NULL
    /\ ~ InPoolRange(pool, plast.arg)
    /\ pool.used > 0

\* C8: a second adead_pool_free of the same in-range pointer p is accepted
\* like the first and leaves p's link pointing to p; while the list head
\* links to itself adead_pool_alloc keeps returning it and never reports
\* exhaustion.
C8_DoubleFreeCorrupts ==
    [][/\ (plast.op = "free" /\ plast.ret = 1
           /\ plast'.op = "free" /\ plast'.arg = plast.arg
           /\ pool.free_list = plast.arg)
          => /\ plast'.ret = 1
             /\ pool'.free_list = plast.arg
             /\ ReadPtr(pmem', pool'.base, plast.arg) = {plast.arg}
       /\ (plast'.op = "alloc" /\ pool.free_list # NULL
           /\ ReadPtr(pmem, pool.base, pool.free_list) = {pool.free_list})
          => /\ plast'.ret = pool.free_list
             /\ pool'.free_list = pool.free_list]_vars

\* after a double free more allocations succeeded than the pool has blocks,
\* all returning the same address
C8_SameBlockHandedOutAgain ==
    /\ pool.base # NULL
    /\ plast.op = "alloc"
    /\ Len(pseq) > pool.capacity
    /\ \A i \in 1..Len(pseq) : pseq[i] # NULL /\ pseq[i] = pseq[1]

\* C9: adead_pool_reset leaves used = 0 and the free list holding every block
\* once, in the order adead_pool_init produces, with base, block_size and
\* capacity unchanged, from every reachable state of the pool.
C9_ResetRestoresInitState ==
    [][(plast'.op = "reset" /\ pool.base # NULL) =>
          LET fresh == adead_pool_init(ZeroPool, <<>>, pool.block_size,
                                       pool.capacity, pool.base)
          IN /\ pool' = fresh.pool
             /\ FreeListSeq(pool', pmem') = FreeListSeq(fresh.pool, fresh.mem)
             /\ FreeListSeq(pool', pmem') =
                    [i \in 1..pool.capacity |->
                        pool.base + (pool.capacity - i) * pool.block_size]]_vars

\* a pool whose list had been corrupted by two frees has just been reset
C9_ResetAfterFrees ==
    /\ plast.op = "reset"
    /\ pool.base # NULL
    /\ pfrees >= 2
    /\ pool.capacity = 2

(***************************************************************************)
(* Properties of the memory manager.                                       *)
(***************************************************************************)

\* C10: a successful adead_memory_scratch(size) raises total_alloc by exactly
\* size and alloc_count by exactly 1, a failed one leaves the manager
\* unchanged, and so total_alloc equals the sum of the sizes of the
\* successful scratch allocations since init.
C10_ScratchAccounting ==
    [][(mlast'.op = "scratch") =>
          /\ IF mlast'.ret # NULL
             THEN /\ mm'.total_alloc = mm.total_alloc + mlast'.size
                  /\ mm'.alloc_count = mm.alloc_count + 1
                  /\ mm'.total_freed = mm.total_freed
                  /\ mm'.free_count = mm.free_count
             ELSE mm' = mm /\ mmem' = mmem
          /\ mm'.total_alloc = msum']_vars

\* C11: adead_memory_scratch_reset adds exactly the scratch arena's offset at
\* the time of the call to total_freed, raises free_count by exactly 1, sets
\* the arena's offset to 0 and leaves total_alloc, alloc_count, the rest of
\* the arena and the tensor pool unchanged; on an empty arena it adds 0 and
\* still counts the call.
C11_ScratchResetAccounting ==
    [][(mlast'.op = "scratch_reset") =>
          /\ mm'.total_freed = mm.total_freed + mm.scratch.offset
          /\ mm'.free_count = mm.free_count + 1
          /\ mm'.scratch.offset = 0
          /\ mm'.scratch.base = mm.scratch.base
          /\ mm'.scratch.capacity = mm.scratch.capacity
          /\ mm'.scratch.peak = mm.scratch.peak
          /\ mm'.total_alloc = mm.total_alloc
          /\ mm'.alloc_count = mm.alloc_count
          /\ mm'.tensor_pool = mm.tensor_pool
          /\ mmem' = mmem]_vars

\* a second reset found the arena empty: it added nothing to the 100 bytes
\* credited by the first one (peak and capacity differ from that offset)
C11_EmptyResetCounted ==
    /\ mlast.op = "scratch_reset"
    /\ mm.scratch.base # NULL
    /\ mm.free_count = 2
    /\ mm.total_freed = 100
    /\ mm.scratch.peak = 100
    /\ mm.scratch.capacity = 512

\* C12: when adead_memory_init returns an error the manager owns no backing
\* buffer: the scratch arena's base is NULL (destroyed if the pool's init
\* failed) and the tensor pool holds no buffer.
C12_FailedInitOwnsNothing ==
    (mlast.op = "init" /\ mlast.ret # ADEAD_OK) =>
        /\ mm.scratch.base = NULL
        /\ mm.tensor_pool.base = NULL
        /\ mmem = <<>>

\* the arena was created (non-zero size, INVALID_PARAM is not an allocation
\* failure) and the pool's init then rejected a pool of zero blocks
C12_PoolInitRejected ==
    /\ mlast.op = "init"
    /\ mlast.size > 0
    /\ mlast.ret = ADEAD_ERROR_INVALID_PARAM

(***************************************************************************)
(* Properties of the runtime.                                              *)
(***************************************************************************)

\* the tensor, copy and numeric operations of the runtime
TensorOps == {"tensor_create", "tensor_copy_from", "tensor_copy_to"}
NumericOps == {"matmul", "add", "relu", "softmax"}

\* C13: a tensor, copy or numeric operation that is given non-null pointers, is
\* invoked on a context whose initialized flag is 0 or whose capability table
\* is null, and returns, returns ADEAD_ERROR_INVALID_PARAM without invoking
\* any backend function
C13_DeadContextRejected ==
    [][(/\ rlast'.op \in TensorOps \cup NumericOps
        /\ rlast'.rt # NULL
        /\ rt.initialized = 0 \/ rt.backend_vtable = NULL
        /\ rstatus' = "ok")
       => (rlast'.ret = ADEAD_ERROR_INVALID_PARAM /\ rlast'.calls = <<>>)]_vars

\* C14: a live context has the CPU tag, the reference table and no flags
\* whichever identity was requested, so nothing in it depends on the request;
\* on it adead_get_backend returns ADEAD_BACKEND_CPU and
\* adead_get_backend_name returns "CPU"; every tensor carries device CPU
C14_BackendAlwaysCPU ==
    /\ rt.initialized = 1 =>
        /\ rt.active_backend = ADEAD_BACKEND_CPU
        /\ rt.backend_vtable = CPU_VTABLE
        /\ rt.flags = 0
        /\ rt.backend_ctx = rhist.ctx
    /\ (rlast.op = "init" /\ rlast.ret = ADEAD_OK) =>
        rt = [ZeroRuntime EXCEPT !.memory = RtMemoryReady.mm,
                                 !.backend_vtable = CPU_VTABLE,
                                 !.backend_ctx = RtCtxAddr,
                                 !.initialized = 1]
    /\ (rt.initialized = 1 /\ rlast.rt # NULL /\ rlast.op = "get_backend") =>
        rlast.ret = ADEAD_BACKEND_CPU
    /\ (rt.initialized = 1 /\ rlast.rt # NULL /\ rlast.op = "get_backend_name") =>
        rlast.name = "CPU"
    /\ \A t \in TensorIds : tens[t].device = ADEAD_BACKEND_CPU

\* a successful adead_init that asked for CUDA, a live CPU context after it
C14_CudaRequested ==
    /\ rlast.op = "init"
    /\ rlast.ret = ADEAD_OK
    /\ rlast.size = ADEAD_BACKEND_CUDA
    /\ rt.initialized = 1
    /\ rt.active_backend = ADEAD_BACKEND_CPU

\* C15: after an adead_init on a context that returned an error the context
\* is not initialised, its memory manager holds neither the arena's nor the
\* pool's buffer, both buffers are freed, and no backend context is held
C15_FailedInitUnwound ==
    (rlast.op = "init" /\ rlast.rt # NULL /\ rlast.ret # ADEAD_OK) =>
        /\ rt.initialized = 0
        /\ rt.memory.scratch.base = NULL
        /\ rt.memory.tensor_pool.base = NULL
        /\ rmem = <<>>
        /\ rt.backend_ctx = NULL

\* adead_init failed in the backend's init hook, after the memory manager had
\* been set up
C15_BackendInitFailed ==
    /\ rlast.op = "init"
    /\ rlast.rt # NULL
    /\ rlast.ret = ADEAD_ERROR_OUT_OF_MEMORY
    /\ rlast.calls = <<BackendCall("init", NULL, <<>>)>>

\* C16: the context is initialised exactly when the most recent lifecycle call
\* on it was a successful adead_init; adead_shutdown on a live context calls
\* the backend's shutdown hook on the context adead_init obtained, destroys the
\* memory manager and leaves every field of the structure zero
C16_AliveFromInitToShutdown ==
    /\ [](rt.initialized = 1 <=> rhist.life = "init_ok")
    /\ [][(rlast'.op = "shutdown" /\ rlast'.rt # NULL /\ rt.initialized = 1) =>
            /\ rlast'.calls = <<BackendCall("shutdown", rhist.ctx, <<>>)>>
            /\ rhist.ctx # NULL
            /\ rmem # <<>>
            /\ rmem' = <<>>
            /\ rt' = ZeroRuntime]_vars

\* adead_shutdown has just taken down a live context
C16_LiveContextShutDown ==
    /\ rlast.op = "shutdown"
    /\ rlast.rt # NULL
    /\ rlast.calls = <<BackendCall("shutdown", RtCtxAddr, <<>>)>>
    /\ rhist = [life |-> "shutdown", ctx |-> RtCtxAddr]
    /\ rt = ZeroRuntime

(***************************************************************************)
(* Properties of tensor creation.                                          *)
(***************************************************************************)

\* C17: an adead_tensor_create on a live context that returns
\* ADEAD_ERROR_OUT_OF_MEMORY leaves the descriptor zeroed
C17_FailedCreateZeroed ==
    (/\ rlast.op = "tensor_create"
     /\ rlast.ret = ADEAD_ERROR_OUT_OF_MEMORY
     /\ rt.initialized = 1)
    => tens[1] = ZeroTensor

\* the element size the layout is stated with, by dtype
ElemSize(dtype) == <<4, 8, 4, 8, 1, 1, 2, 2>>[dtype + 1]

\* the product of the first n extents, in unbounded integers
RECURSIVE ShapeProduct(_, _)
ShapeProduct(shape, n) ==
    IF n = 0 THEN 1 ELSE shape[n] * ShapeProduct(shape, n - 1)

\* C18: the descriptor of a successful adead_tensor_create on a live context
\* with one of the eight dtypes is contiguous row-major: the last stride is the
\* element size, every other stride is the next stride times the next extent,
\* and size_bytes is the number of elements times the element size, which is
\* the first stride times the first extent
C18_RowMajorLayout ==
    (/\ rlast.op = "tensor_create"
     /\ rlast.ret = ADEAD_OK
     /\ rt.initialized = 1
     /\ tens[1].dtype \in 0..7)
    => LET t == tens[1]
           e == ElemSize(t.dtype)
       IN
       /\ t.ndim \in 1..ADEAD_MAX_DIMS
       /\ t.strides[t.ndim] = e
       /\ \A i \in 1..(t.ndim - 1) : t.strides[i] = t.strides[i + 1] * t.shape[i + 1]
       /\ t.size_bytes = ShapeProduct(t.shape, t.ndim) * e
       /\ t.size_bytes = t.strides[1] * t.shape[1]

(***************************************************************************)
(* Properties of the copy operations and of the frame of the tensor calls. *)
(***************************************************************************)

\* the smaller of two byte counts
Smaller(a, b) == IF a < b THEN a ELSE b

\* C19: on a live context adead_tensor_copy_from and adead_tensor_copy_to with
\* non-null pointers and a tensor that holds storage return ADEAD_OK after one
\* backend copy that moves exactly min(size, size_bytes) bytes: copy_from
\* replaces that many leading bytes of the tensor's storage by the caller's and
\* copy_to that many leading bytes of the caller's buffer by the tensor's;
\* every other byte of both, the bytes of the caller's buffer beyond size_bytes
\* among them, is left as it was
C19_CopyClamped ==
    [][(/\ rlast'.op \in {"tensor_copy_from", "tensor_copy_to"}
        /\ rlast'.t # NULL
        /\ rt.initialized = 1
        /\ tens[rlast'.t].data # NULL)
       => LET t == tens[rlast'.t]
              n == Smaller(rlast'.size, t.size_bytes)
              old == heap[t.data].bytes
          IN
          /\ rstatus' = "ok"
          /\ rlast'.ret = ADEAD_OK
          /\ Len(rlast'.calls) = 1
          /\ IF rlast'.op = "tensor_copy_from"
             THEN /\ rlast'.calls[1].fn = "copy_h2d"
                  /\ host' = host
                  /\ heap' = [heap EXCEPT ![t.data].bytes =
                                [i \in 1..Len(old) |->
                                    IF i <= n THEN HostData[i] ELSE old[i]]]
             ELSE /\ rlast'.calls[1].fn = "copy_d2h"
                  /\ heap' = heap
                  /\ host' = [i \in 1..HostLen |->
                                IF i <= n THEN old[i] ELSE host[i]]]_vars

\* adead_tensor_copy_to asked for the caller's 8 bytes from a tensor of 6: the
\* tensor's 6 bytes have arrived and the last two are as they were
C19_OversizedCopyTo ==
    /\ rlast.op = "tensor_copy_to"
    /\ rlast.ret = ADEAD_OK
    /\ rlast.t = 1
    /\ rlast.size = HostLen
    /\ tens[1].size_bytes = 6
    /\ host = <<1, 2, 3, 4, 5, 6, 0, 0>>

\* C20: adead_tensor_create, adead_tensor_destroy, the copy operations and the
\* numeric operations, whenever they return, leave the runtime's memory
\* manager as it was: the scratch arena, the tensor pool with its free list,
\* and the four lifetime counters
C20_MemoryManagerUntouched ==
    [][(/\ rlast'.op \in TensorOps \cup {"tensor_destroy"} \cup NumericOps
        /\ rstatus' = "ok")
       => (rt'.memory = rt.memory /\ rmem' = rmem)]_vars

\* a tensor has been destroyed on a live context whose memory manager has
\* handed out scratch memory
C20_DestroyAfterScratch ==
    /\ rlast.op = "tensor_destroy"
    /\ rlast.calls = <<BackendCall("free", RtCtxAddr, <<>>)>>
    /\ rt.initialized = 1
    /\ rt.memory.scratch.offset = 100
    /\ rt.memory.total_alloc = 100
    /\ rt.memory.alloc_count = 1
    /\ rt.memory.free_count = 0

(***************************************************************************)
(* Properties of the numeric operations.                                   *)
(***************************************************************************)

\* a numeric operation with a null pointer argument returns
\* ADEAD_ERROR_INVALID_PARAM without calling the backend
NumericNullRejected ==
    (rlast'.op \in NumericOps /\ rlast'.t = NULL) =>
        /\ rlast'.ret = ADEAD_ERROR_INVALID_PARAM
        /\ rlast'.calls = <<>>
        /\ rstatus' = "ok"

\* a numeric operation with non-null pointers on a context that holds a
\* capability table makes exactly one call, to its own table entry with the
\* context's backend pointer, reports no error and returns ADEAD_OK when the
\* kernel returns
NumericForwarded ==
    (rlast'.op \in NumericOps /\ rlast'.t # NULL /\ rt.backend_vtable # NULL) =>
        /\ Len(rlast'.calls) = 1
        /\ rlast'.calls[1].fn = rlast'.op
        /\ rlast'.calls[1].ctx = rt.backend_ctx
        /\ rlast'.ret # ADEAD_ERROR_INVALID_PARAM
        /\ rstatus' = "ok" => rlast'.ret = ADEAD_OK

\* C21 as stated: null pointers are rejected, other calls are forwarded once,
\* and the sizes passed are derived from the first operand's shape, so that two
\* consecutive calls of one operation on the same first operand that both
\* return pass the same sizes
C21_SizesFromFirstOperand ==
    [][/\ NumericNullRejected
       /\ NumericForwarded
       /\ (/\ rlast'.op \in NumericOps
           /\ rlast'.t # NULL
           /\ rt.backend_vtable # NULL
           /\ rlast.op = rlast'.op
           /\ rlast.t = rlast'.t
           /\ rlast.calls # <<>>
           /\ rstatus' = "ok")
          => rlast'.calls[1].args = rlast.calls[1].args]_vars

\* C21 amended: null pointers are rejected, other calls are forwarded once;
\* adead_matmul passes m and k from the first operand's shape and n from the
\* second operand's, adead_add and adead_relu the first operand's element
\* count, adead_softmax the first operand's two leading extents; no shape is
\* compared with another, so a mismatch is never reported
C21_SizesFromOperands ==
    [][/\ NumericNullRejected
       /\ NumericForwarded
       /\ (rlast'.op \in NumericOps /\ rlast'.t # NULL /\ rt.backend_vtable # NULL) =>
            LET a == tens[rlast'.t]
                b == tens[rlast'.size]
                args == rlast'.calls[1].args
            IN  CASE rlast'.op = "matmul" -> args = <<a.shape[1], b.shape[2], a.shape[2]>>
                  [] rlast'.op = "softmax" -> args = <<a.shape[1], a.shape[2]>>
                  [] OTHER -> args = <<ShapeProduct(a.shape, a.ndim)>>]_vars

\* adead_matmul has returned ADEAD_OK for a 2x2 first operand and a second
\* operand without rows or columns
C21_MismatchForwarded ==
    /\ rlast.op = "matmul"
    /\ rlast.ret = ADEAD_OK
    /\ rlast.t = 1
    /\ rlast.size = 2
    /\ tens[1].shape[2] = 2
    /\ tens[2].shape[1] = 0
    /\ rlast.calls = <<BackendCall("matmul", RtCtxAddr, <<2, 0, 2>>)>>

\* the sum of a[i,l] * b[l,j] over l < k for row-major operands, from the last
\* term down
RECURSIVE DotProduct(_, _, _, _, _, _)
DotProduct(a, b, i, j, n, k) ==
    IF k = 0 THEN 0
    ELSE a[i * kin.k + k] * b[(k - 1) * n + j + 1] + DotProduct(a, b, i, j, n, k - 1)

\* the d x d identity matrix, row-major
Identity(d) == [x \in 1..(d * d) |-> IF (x - 1) \div d = (x - 1) % d THEN 1 ELSE 0]

\* C22: cpu_matmul stores in c[i,j] the sum over l of a[i,l] * b[l,j] for
\* row-major m-by-k and k-by-n operands; with the identity as one operand it
\* stores the other operand
C22_MatmulIsRowMajorProduct ==
    kout # <<>> =>
        /\ Len(kout) = kin.m * kin.n
        /\ \A i \in 0..(kin.m - 1), j \in 0..(kin.n - 1) :
                kout[i * kin.n + j + 1] = DotProduct(kin.a, kin.b, i, j, kin.n, kin.k)
        /\ (kin.m = kin.k /\ kin.a = Identity(kin.k)) => kout = kin.b
        /\ (kin.n = kin.k /\ kin.b = Identity(kin.k)) => kout = kin.a

\* the identity times [[1,2],[3,4]] has given [[1,2],[3,4]]
C22_IdentityTimesMatrix ==
    /\ kin.a = <<1, 0, 0, 1>>
    /\ kin.b = <<1, 2, 3, 4>>
    /\ kout = <<1, 2, 3, 4>>

(***************************************************************************)
(* Further properties of the arena allocator.                              *)
(***************************************************************************)

\* C23: on an initialised arena peak is the high-water mark of offset: it is
\* the largest offset reached since init (so peak >= offset), no
\* adead_arena_alloc or adead_arena_reset call decreases it, and
\* adead_arena_reset sets offset to 0 and leaves peak, capacity and base
\* unchanged.
C23_PeakIsHighWaterMark ==
    /\ [](arena.base # NULL => (arena.peak = ahigh /\ arena.peak >= arena.offset))
    /\ [][(arena.base # NULL /\ alast'.op \in {"alloc", "reset"}) =>
            /\ arena'.peak >= arena.peak
            /\ alast'.op = "reset" => arena' = [arena EXCEPT !.offset = 0]]_vars

\* an allocation made after a reset has left offset below peak
C23_AllocBelowPeak ==
    /\ alast.op = "alloc"
    /\ alast.ret # NULL
    /\ arena.offset > 0
    /\ arena.offset < arena.peak

\* the byte ranges [p, p + size) of two regions have no byte in common
Disjoint(r1, r2) == r1[1] + r1[2] <= r2[1] \/ r2[1] + r2[2] <= r1[1]

\* C26: between two resets a successful adead_arena_alloc never moves the
\* cursor backwards, and the region it returns is disjoint from every region
\* returned since the last init or reset, for every size > 0 and every
\* alignment value, 0 and non-powers of two included.
C26_RegionsDisjoint ==
    [][(arena.base # NULL /\ alast'.op = "alloc" /\ alast'.ret # NULL) =>
          /\ arena'.offset >= arena.offset
          /\ \A r \in aregions : Disjoint(r, <<alast'.ret, alast'.size>>)]_vars


\* C27: every successful adead_arena_alloc returns a region that lies inside
\* the buffer: the region starts at or after base and ends at or before
\* base + capacity, the sum aligned_offset + size being taken in the
\* mathematical integers.
C27_RegionInsideBuffer ==
    (arena.base # NULL /\ alast.op = "alloc" /\ alast.ret # NULL) =>
        /\ alast.ret >= arena.base
        /\ alast.ret + alast.size <= arena.base + arena.capacity


(***************************************************************************)
(* Further properties of the pool allocator.                               *)
(***************************************************************************)

\* C24: after adead_pool_init and after adead_pool_reset the free list holds
\* the blocks in reverse construction order, so the N-th consecutive
\* adead_pool_alloc call returns block capacity - N: the addresses run from
\* base + (capacity - 1) * block_size down to base.
C24_ReverseConstructionOrder ==
    (pool.base # NULL /\ pclean) =>
        /\ pseq = <<>> =>
              FreeListSeq(pool, pmem) =
                  [i \in 1..pool.capacity |->
                      pool.base + (pool.capacity - i) * pool.block_size]
        /\ \A n \in 1..Len(pseq) :
              n <= pool.capacity =>
                  pseq[n] = pool.base + (pool.capacity - n) * pool.block_size

\* a two-block pool handed out its second block and then its first
C24_LastBlockFirst ==
    /\ pool.base # NULL
    /\ pclean
    /\ plast.op = "alloc"
    /\ pool.capacity = 2
    /\ pseq = <<pool.base + pool.block_size, pool.base>>

\* C25: while every adead_pool_free call is given an outstanding address (one
\* returned by adead_pool_alloc and not freed since), used is the number of
\* outstanding blocks, used + length(free list) = capacity, 0 <= used <=
\* capacity, the free list ends in NULL and holds exactly the blocks that are
\* not outstanding, each once, and adead_pool_alloc never returns a block that
\* is outstanding.
C25_DisciplinedUseAccounting ==
    /\ [](( pool.base # NULL /\ pdisc) =>
            LET fl == FreeListSeq(pool, pmem) IN
            /\ pool.used = Cardinality(pout)
            /\ pool.used + Len(fl) = pool.capacity
            /\ 0 <= pool.used /\ pool.used <= pool.capacity
            /\ \A i, j \in 1..Len(fl) : i # j => fl[i] # fl[j]
            /\ SeqToSet(fl) = BlockAddrs(pool) \ pout
            /\ fl # <<>> => ReadPtr(pmem, pool.base, fl[Len(fl)]) = {NULL})
    /\ [][(pool.base # NULL /\ pdisc /\ plast'.op = "alloc") =>
              plast'.ret \notin pout]_vars

\* a block of a two-block pool was freed while the other one stayed outstanding
C25_OneFreedOneOutstanding ==
    /\ pool.base # NULL
    /\ pdisc
    /\ plast.op = "free"
    /\ plast.ret = 1
    /\ pool.capacity = 2
    /\ Cardinality(pout) = 1
    /\ Len(FreeListSeq(pool, pmem)) = 1

(***************************************************************************)
(* Further properties of the memory manager.                               *)
(***************************************************************************)

\* C28: every adead_memory_scratch, adead_memory_scratch_reset and
\* adead_memory_stats call on an initialised manager leaves
\* total_freed + scratch.offset >= total_alloc and decreases none of the four
\* counters, and adead_memory_stats changes nothing.
C28_CountersCumulative ==
    [][(mm.scratch.base # NULL
        /\ mlast'.op \in {"scratch", "scratch_reset", "stats"}) =>
          /\ mm'.total_freed + mm'.scratch.offset >= mm'.total_alloc
          /\ mm'.total_alloc >= mm.total_alloc
          /\ mm'.total_freed >= mm.total_freed
          /\ mm'.alloc_count >= mm.alloc_count
          /\ mm'.free_count >= mm.free_count
          /\ mlast'.op = "stats" => mm' = mm]_vars

(***************************************************************************)
(* Further properties of the runtime.                                      *)
(***************************************************************************)

\* C29: repeated teardown is a no-op.  adead_shutdown on a context whose last
\* init/shutdown call was not a successful adead_init (a second shutdown, a
\* never-initialised context) changes nothing and calls no backend function;
\* adead_tensor_destroy on a descriptor that holds no storage from a
\* successful adead_tensor_create (a second destroy) changes nothing and calls
\* no backend function.  So the shutdown hook runs at most once per successful
\* adead_init and the backend free at most once per successful
\* adead_tensor_create.
C29_RepeatedTeardownNoOp ==
    [][/\ (rlast'.op = "shutdown" /\ rhist.life # "init_ok") =>
            /\ rlast'.calls = <<>>
            /\ <<rt, rmem, bctx, tens, heap>>' = <<rt, rmem, bctx, tens, heap>>
       /\ (rlast'.op = "tensor_destroy" /\ rstatus' = "ok" /\ rlast'.t \notin rmade) =>
            /\ rlast'.calls = <<>>
            /\ <<rt, rmem, bctx, tens, heap>>' = <<rt, rmem, bctx, tens, heap>>
       /\ (rlast'.op = "shutdown" /\ rlast'.calls # <<>>) =>
            /\ rlast'.calls = <<BackendCall("shutdown", rhist.ctx, <<>>)>>
            /\ rhist'.life = "shutdown"
       /\ (rlast'.op = "tensor_destroy" /\ rlast'.calls # <<>>) =>
            /\ Len(rlast'.calls) = 1
            /\ rlast'.calls[1].fn = "free"
            /\ rlast'.t \in rmade
            /\ rlast'.t \notin rmade']_vars

\* a context that had been initialised and shut down has been shut down again
C29_SecondShutdown ==
    /\ rlast.op = "shutdown"
    /\ rlast.rt # NULL
    /\ rlast.calls = <<>>
    /\ rhist = [life |-> "shutdown", ctx |-> RtCtxAddr]
    /\ rt = ZeroRuntime

\* C30: adead_memory_used is cumulative.  On a live context it returns the
\* sum of size_bytes over the successful adead_tensor_create calls made since
\* adead_init, adead_tensor_destroy leaves the value it returns unchanged, and
\* so it stays above 0 after every tensor has been destroyed.
C30_MemoryUsedCumulative ==
    /\ []((rlast.op = "memory_used" /\ rlast.rt # NULL /\ rt.initialized = 1) =>
            rlast.ret = rsum)
    /\ [][(rlast'.op = "tensor_destroy" /\ rstatus' = "ok") =>
            adead_memory_used(PTR, rt', bctx') = adead_memory_used(PTR, rt, bctx)]_vars

\* a 2x2 f32 tensor was created and destroyed, and adead_memory_used still
\* reports its 16 bytes
C30_UsedAfterAllDestroyed ==
    /\ rlast.op = "memory_used"
    /\ rlast.rt # NULL
    /\ rt.initialized = 1
    /\ rlast.ret = 16
    /\ rmade = {}
    /\ \A t \in TensorIds : tens[t] = ZeroTensor
    /\ \A a \in DataAddrs : heap[a] = NoBuffer
====
